---------------------------- MODULE Spec2Model ----------------------------
(***************************************************************************)
(* A model of the OMP spot-calling core of coppafish (package iss):        *)
(*   iss/omp/spots.py      cropped_coef_image, count_spot_neighbours,      *)
(*                         get_spots                                       *)
(*   iss/pipeline/omp.py   call_spots_omp                                  *)
(*   iss/utils/morphology.py  ensure_odd_kernel, imfilter                  *)
(* Arrays are sequences (rows) of tuples; an image is a record             *)
(* [shape, val] whose shape has as many entries as the array has axes, so  *)
(* that a 2-D image and a 3-D image of unit z-extent are different values. *)
(* Python raises are modelled as an error tag carried by the result.       *)
(***************************************************************************)
EXTENDS Integers, Sequences, FiniteSets, TLC

(***************************************************************************)
(* Bounds of the model.                                                    *)
(***************************************************************************)
\* largest number of retained pixels of one tile
MaxPix == 2

\* local pixel coordinates of a tile
Ys == 0 .. 1
Xs == 0 .. 1
Zs == 0 .. 1
Grid == Ys \X Xs \X Zs
\* gene numbers (columns of pixel_coefs)
Genes == 0 .. 1
NGenes == Cardinality(Genes)
\* the rows of pixel_coefs the solver may give a retained pixel (at least one
\* gene has a non-zero coefficient, omp.py line 90)
CoefRows == {<<2, 0>>, <<1, 1>>, <<0, -1>>}

\* an optional value is a tuple of length 0 (Python's None) or 1
None == <<>>
Some(x) == <<x>>
IsNone(o) == Len(o) = 0
Val(o) == o[1]
NoError == "none"

(***************************************************************************)
(* numpy helpers                                                           *)
(***************************************************************************)
Min(S) == CHOOSE m \in S : \A n \in S : m <= n
Max(S) == CHOOSE m \in S : \A n \in S : m >= n
Abs(n) == IF n < 0 THEN -n ELSE n
Range(f) == {f[i] : i \in DOMAIN f}

\* a[:, :k] for one row
Take(t, k) == [j \in 1 .. k |-> t[j]]
\* elementwise a - b and a + b of two rows of equal length
Sub(a, b) == [j \in DOMAIN a |-> a[j] - b[j]]
Add(a, b) == [j \in DOMAIN a |-> a[j] + b[j]]

\* lexicographic (raster) order of index tuples, the order of np.where
LexLess(a, b) ==
    \E j \in DOMAIN a : a[j] < b[j] /\ \A i \in 1 .. (j - 1) : a[i] = b[i]

RECURSIVE SortedSeq(_)
SortedSeq(S) ==
    IF S = {} THEN <<>>
    ELSE LET m == CHOOSE a \in S : \A b \in S \ {a} : LexLess(a, b)
         IN <<m>> \o SortedSeq(S \ {m})

\* a[mask] for a boolean mask of the same length
RECURSIVE MaskSeq(_, _)
MaskSeq(a, mask) ==
    IF a = <<>> THEN <<>>
    ELSE (IF Head(mask) THEN <<Head(a)>> ELSE <<>>) \o MaskSeq(Tail(a), Tail(mask))

\* all index tuples of an array of the given shape (2 or 3 axes)
Cells(shape) ==
    IF Len(shape) = 2
    THEN (0 .. (shape[1] - 1)) \X (0 .. (shape[2] - 1))
    ELSE (0 .. (shape[1] - 1)) \X (0 .. (shape[2] - 1)) \X (0 .. (shape[3] - 1))

\* pixel_coefs[:, g]
Column(coefs, g) == [i \in DOMAIN coefs |-> coefs[i][g + 1]]

(***************************************************************************)
(* cropped_coef_image                                                      *)
(***************************************************************************)
\* nz_ind: rows with a non-zero coefficient
nz_ind(col) == {i \in DOMAIN col : col[i] # 0}

coord_shift_zero(yxz, nz) == <<0, 0, 0>>
\* coord_shift = nz_pixel_yxz.min(axis=0)
coord_shift_of(yxz, nz) == [j \in 1 .. 3 |-> Min({yxz[i][j] : i \in nz})]

\* n_y, n_x, n_z = (nz_pixel_yxz - coord_shift).max(axis=0) + 1
crop_extent(yxz, nz, shift) == [j \in 1 .. 3 |-> Max({yxz[i][j] - shift[j] : i \in nz}) + 1]

\* the array allocated for the extent: 2-D when n_z = 1
crop_shape(n) == IF n[3] = 1 THEN <<n[1], n[2]>> ELSE n

\* coef_image[nz_pixel_yxz[:, 0..ndim-1]] = nz_pixel_coefs: a repeated index
\* keeps the last value written
crop_scatter(yxz, col, nz, shift, shape) ==
    [c \in Cells(shape) |->
        LET hit == {i \in nz : Take(Sub(yxz[i], shift), Len(shape)) = c}
        IN IF hit = {} THEN 0 ELSE col[Max(hit)]]

cropped_coef_image(yxz, col) ==
    LET nz == nz_ind(col) IN
    IF nz = {}
    THEN \* min of an empty array
         [err |-> "ValueError: zero-size array", coef_image |-> None,
          coord_shift |-> None]
    ELSE LET shift == coord_shift_of(yxz, nz)
             shape == crop_shape(crop_extent(yxz, nz, shift))
         IN [err |-> NoError,
             coef_image |-> [shape |-> shape,
                             val |-> crop_scatter(yxz, col, nz, shift, shape)],
             coord_shift |-> shift]

(***************************************************************************)
(* Errors: the exception class, which check raised it, and its arguments   *)
(***************************************************************************)
Ok == [type |-> "none", what |-> "", args |-> <<>>]
Raise(type, what, args) == [type |-> type, what |-> what, args |-> args]
Raised(e) == e.type # "none"

(***************************************************************************)
(* find_spots.detect_spots(image, thresh, radius_xy, radius_z, False):     *)
(* the pixels that exceed the threshold and equal the maximum of the       *)
(* image under the structuring element; equal maxima are all returned.    *)
(* One row per spot with image.ndim columns, in raster order.              *)
(***************************************************************************)
StrelOffsets(ndim, r_xy, r_z) ==
    IF ndim = 2
    THEN {d \in (-r_xy .. r_xy) \X (-r_xy .. r_xy) :
            d[1] * d[1] + d[2] * d[2] <= r_xy * r_xy}
    ELSE {d \in (-r_xy .. r_xy) \X (-r_xy .. r_xy) \X (-r_z .. r_z) :
            d[1] * d[1] + d[2] * d[2] + d[3] * d[3] <= r_xy * r_xy}

detect_spots(image, thresh, r_xy, r_z) ==
    LET cells == Cells(image.shape)
        se == StrelOffsets(Len(image.shape), r_xy, r_z)
        IsMax(c) == \A d \in se :
                        Add(c, d) \in cells => image.val[Add(c, d)] <= image.val[c]
    IN SortedSeq({c \in cells : image.val[c] > thresh /\ IsMax(c)})

(***************************************************************************)
(* utils.morphology.ensure_odd_kernel and imfilter (correlation, the       *)
(* image padded with zeros)                                                *)
(***************************************************************************)
\* zeros put in front of an axis of even length (pad_location = 'start')
pad_start(n) == IF n % 2 = 0 THEN 1 ELSE 0

ensure_odd_kernel(kernel) ==
    LET shape == [j \in DOMAIN kernel.shape |->
                    kernel.shape[j] + pad_start(kernel.shape[j])]
    IN [shape |-> shape,
        val |-> [k \in Cells(shape) |->
                    LET o == [j \in DOMAIN shape |-> k[j] - pad_start(kernel.shape[j])]
                    IN IF o \in Cells(kernel.shape) THEN kernel.val[o] ELSE 0]]

RECURSIVE SumOver(_, _)
SumOver(S, f) ==
    IF S = {} THEN 0
    ELSE LET k == CHOOSE k \in S : TRUE IN f[k] + SumOver(S \ {k}, f)

\* scipy.ndimage.correlate(image, kernel, mode='constant', cval=0) at cell c
correlate_at(image, kernel, c) ==
    LET cells == Cells(image.shape)
        at(k) == [j \in DOMAIN c |-> c[j] + k[j] - (kernel.shape[j] \div 2)]
    IN SumOver(Cells(kernel.shape),
               [k \in Cells(kernel.shape) |->
                    IF at(k) \in cells THEN kernel.val[k] * image.val[at(k)] ELSE 0])

\* imfilter(image, kernel)[c]
imfilter(image, kernel, c) == correlate_at(image, ensure_odd_kernel(kernel), c)

(***************************************************************************)
(* count_spot_neighbours                                                   *)
(***************************************************************************)
\* np.mean over a last axis of length 1: the axis is removed
drop_last_axis(a) ==
    [shape |-> Take(a.shape, Len(a.shape) - 1),
     val |-> [c \in Cells(Take(a.shape, Len(a.shape) - 1)) |-> a.val[c \o <<0>>]]]

\* filter[:, :, floor(filter.shape[2] / 2)]
middle_plane(a) ==
    [shape |-> Take(a.shape, 2),
     val |-> [c \in Cells(Take(a.shape, 2)) |-> a.val[c \o <<a.shape[3] \div 2>>]]]

\* (image > 1) as a 0/1 image
pos_image_above_one(image) ==
    [shape |-> image.shape,
     val |-> [c \in Cells(image.shape) |-> IF image.val[c] > 1 THEN 1 ELSE 0]]

\* (image > 0) and (image < 0) as 0/1 images
pos_image(image) ==
    [shape |-> image.shape,
     val |-> [c \in Cells(image.shape) |-> IF image.val[c] > 0 THEN 1 ELSE 0]]
neg_image(image) ==
    [shape |-> image.shape,
     val |-> [c \in Cells(image.shape) |-> IF image.val[c] < 0 THEN 1 ELSE 0]]

\* the filter used on an image: reduced to the image's rank (lines 43-45, 68-70)
fit_filter(image, filter) ==
    IF Len(image.shape) = Len(filter.shape) - 1
    THEN (IF filter.shape[Len(filter.shape)] = 1
          THEN drop_last_axis(filter) ELSE middle_plane(filter))
    ELSE filter

\* lines 37-39: image 2-D but spots 3-D with every z equal to 0
fit_spots(image, spot_yxz) ==
    LET ncols == Len(spot_yxz[1]) IN
    IF /\ Len(image.shape) = ncols - 1
       /\ Max({Abs(spot_yxz[i][ncols]) : i \in DOMAIN spot_yxz}) = 0
    THEN [i \in DOMAIN spot_yxz |-> Take(spot_yxz[i], Len(image.shape))]
    ELSE spot_yxz

\* lines 40-42: image 3-D of unit z-extent but spots 2-D
fit_image(image, spot_yxz) ==
    IF /\ Len(image.shape) = Len(spot_yxz[1]) + 1
       /\ image.shape[Len(image.shape)] = 1
    THEN drop_last_axis(image)
    ELSE image

\* lines 56-60: the spots must lie in the image. A row of another length than
\* image.ndim cannot be compared with max_yxz: numpy raises when it reaches the
\* first such row that has no negative entry.
spots_in_image(image, spot_yxz) ==
    LET ndim == Len(image.shape)
        max_yxz == [j \in 1 .. ndim |-> image.shape[j] - 1]
        neg(v) == \E j \in DOMAIN v : v[j] < 0
        oob(v) == neg(v) \/ \E j \in 1 .. ndim : v[j] > max_yxz[j]
        bad == {i \in DOMAIN spot_yxz : oob(spot_yxz[i])}
    IN IF Len(spot_yxz[1]) # ndim /\ \E i \in DOMAIN spot_yxz : ~neg(spot_yxz[i])
       THEN Raise("ValueError", "broadcast", <<Len(spot_yxz[1]), ndim>>)
       ELSE IF Len(spot_yxz[1]) # ndim \/ bad # {}
       THEN Raise("OutOfBoundsError", "spot_yxz",
                  <<spot_yxz[IF Len(spot_yxz[1]) # ndim THEN 1 ELSE Min(bad)],
                    [j \in 1 .. ndim |-> 0], max_yxz>>)
       ELSE Ok

\* the filter holds values other than 0 and 1
bad_filter(filter) == \E k \in Cells(filter.shape) : filter.val[k] \notin {0, 1}

\* n_neighbours = neighbour_image[spot_yxz[:, 0], spot_yxz[:, 1] (, spot_yxz[:, 2])]
neighbours_at(binary_image, filter, spot_yxz) ==
    [i \in DOMAIN spot_yxz |->
        imfilter(binary_image, fit_filter(binary_image, filter),
                 Take(spot_yxz[i], Len(binary_image.shape)))]

\* spot_yxz is not empty; neg_filter is optional
count_spot_neighbours(image0, spot_yxz0, pos_filter0, neg_filter0) ==
    LET spot_yxz == fit_spots(image0, spot_yxz0)
        image == fit_image(image0, spot_yxz)
        drop(f) == IF Len(image.shape) = Len(f.shape) - 1 /\ f.shape[Len(f.shape)] = 1
                   THEN drop_last_axis(f) ELSE f
        pos_filter == drop(pos_filter0)
        inside == spots_in_image(image, spot_yxz)
        fail(e) == [err |-> e, n_pos |-> <<>>, n_neg |-> <<>>]
    IN IF ~IsNone(neg_filter0) /\ bad_filter(drop(Val(neg_filter0)))
       THEN fail(Raise("ValueError", "neg_filter", <<>>))
       ELSE IF bad_filter(pos_filter)
       THEN fail(Raise("ValueError", "pos_filter", <<>>))
       ELSE IF Raised(inside)
       THEN fail(inside)
       ELSE IF Len(fit_filter(image, pos_filter).shape) # Len(image.shape)
       THEN fail(Raise("RuntimeError", "filter weights", <<>>))
       ELSE IF /\ ~IsNone(neg_filter0)
               /\ Len(fit_filter(image, drop(Val(neg_filter0))).shape) # Len(image.shape)
       THEN fail(Raise("RuntimeError", "filter weights", <<>>))
       ELSE [err |-> Ok,
             n_pos |-> neighbours_at(pos_image(image), pos_filter, spot_yxz),
             n_neg |-> IF IsNone(neg_filter0) THEN <<>>
                       ELSE neighbours_at(neg_image(image), drop(Val(neg_filter0)),
                                          spot_yxz)]

(***************************************************************************)
(* get_spots                                                               *)
(* The arguments are a record a with fields pixel_yxz, pixel_coefs,        *)
(* radius_xy, radius_z, coef_thresh, spot_shape (optional),                *)
(* pos_neighbour_thresh and spot_yxzg (optional).                          *)
(***************************************************************************)
\* np.sum(spot_shape == v)
count_value(spot_shape, v) ==
    Cardinality({k \in Cells(spot_shape.shape) : spot_shape.val[k] = v})

\* pos_filter = (spot_shape > 0).astype(int), neg_filter = (spot_shape < 0).astype(int)
pos_filter_of(spot_shape) ==
    [shape |-> spot_shape.shape,
     val |-> [k \in Cells(spot_shape.shape) |-> IF spot_shape.val[k] > 0 THEN 1 ELSE 0]]
neg_filter_of(spot_shape) ==
    [shape |-> spot_shape.shape,
     val |-> [k \in Cells(spot_shape.shape) |-> IF spot_shape.val[k] < 0 THEN 1 ELSE 0]]

\* lines 316, 319: np.sum(spot_shape == v) == 0
has_none_never(spot_shape, v) == FALSE
has_none(spot_shape, v) == count_value(spot_shape, v) = 0

\* line 323: pos_neighbour_thresh < 0 or pos_neighbour_thresh >= np.sum(pos_filter)
thresh_above(thresh, n_pos) == thresh < 0 \/ thresh > n_pos
thresh_out_of_bounds(thresh, n_pos) == thresh < 0 \/ thresh >= n_pos

\* lines 313-327: the checks of spot_shape and pos_neighbour_thresh
shape_check(spot_shape, pos_neighbour_thresh) ==
    IF IsNone(spot_shape) THEN Ok
    ELSE LET n_pos == count_value(pos_filter_of(Val(spot_shape)), 1) IN
         IF has_none(Val(spot_shape), 1)
         THEN Raise("ValueError", "no_pos", <<>>)
         ELSE IF has_none(Val(spot_shape), -1)
         THEN Raise("ValueError", "no_neg", <<>>)
         ELSE IF thresh_out_of_bounds(pos_neighbour_thresh, n_pos)
         THEN Raise("OutOfBoundsError", "pos_neighbour_thresh",
                    <<pos_neighbour_thresh, 0, n_pos - 1>>)
         ELSE Ok

\* number of supplied spots whose coefficient is checked (line 331)
MaxCheck == 500
\* np.clip(500, 0, n)
n_to_check(n) == IF MaxCheck > n THEN n ELSE MaxCheck

\* numpy_indexed.indices(pixel_yxz, yxz): the row of pixel_yxz equal to yxz
pixel_index_of(yxz_table, yxz) == {i \in DOMAIN yxz_table : yxz_table[i] = yxz}

\* lines 329-338: every error the check of the supplied spots can end in, over
\* the random choice of the checked spots and of their order; {Ok} when it
\* passes whatever the choice
candidate_check(a) ==
    IF IsNone(a.spot_yxzg) THEN {Ok}
    ELSE LET yxzg == Val(a.spot_yxzg)
             coef(i) == a.pixel_coefs[Max(pixel_index_of(a.pixel_yxz, Take(yxzg[i], 3)))]
                                     [yxzg[i][4] + 1]
             result(to_check) ==
                IF \E i \in to_check : pixel_index_of(a.pixel_yxz, Take(yxzg[i], 3)) = {}
                THEN {Raise("KeyError", "pixel_yxz", <<>>)}
                ELSE IF to_check = {}
                THEN \* spot_coefs_check.min() of an empty array
                     {Raise("ValueError", "spot_coefs_check", <<>>)}
                ELSE LET least == Min({coef(i) : i \in to_check}) IN
                     IF least <= a.coef_thresh
                     THEN {Raise("ValueError", "spot_yxzg",
                                 <<yxzg[bad][4], bad - 1, Take(yxzg[bad], 3), least>>) :
                             bad \in {i \in to_check : coef(i) = least}}
                     ELSE {Ok}
         IN UNION {result(to_check) :
                     to_check \in {S \in SUBSET DOMAIN yxzg :
                                     Cardinality(S) = n_to_check(Len(yxzg))}}

\* line 359: keep = n_pos_neighb > pos_neighbour_thresh
keep_above_or_equal(n_pos, thresh) == [i \in DOMAIN n_pos |-> n_pos[i] >= thresh]
keep_above(n_pos, thresh) == [i \in DOMAIN n_pos |-> n_pos[i] > thresh]

\* line 352: the supplied spots of gene g, in the frame of the cropped image
spots_of_gene(yxzg, g, shift) ==
    LET rows == MaskSeq(yxzg, [i \in DOMAIN yxzg |-> yxzg[i][4] = g])
    IN [i \in DOMAIN rows |-> Sub(Take(rows[i], 3), shift)]

\* lines 364-365: spot_info_g[:, :ndim] = yxz; spot_info_g[:, :3] += coord_shift
native_yxz(yxz, shift) ==
    [j \in 1 .. 3 |-> (IF j <= Len(yxz) THEN yxz[j] ELSE 0) + shift[j]]

\* lines 360-366 with a shape: the rows of the kept spots
rows_with_counts(spot_yxz, keep, n_pos, n_neg, shift, g) ==
    LET yxz == MaskSeq(spot_yxz, keep)
        kept_pos == MaskSeq(n_pos, keep)
        kept_neg == MaskSeq(n_neg, keep)
    IN [i \in DOMAIN yxz |-> native_yxz(yxz[i], shift) \o <<g, kept_pos[i], kept_neg[i]>>]

\* lines 355-356, 364-366 without a shape: every spot is kept
rows_first_only(spot_yxz, shift, g) ==
    IF spot_yxz = <<>> THEN <<>> ELSE <<native_yxz(spot_yxz[1], shift) \o <<g>>>>
rows_plain(spot_yxz, shift, g) ==
    [i \in DOMAIN spot_yxz |-> native_yxz(spot_yxz[i], shift) \o <<g>>]

\* lines 345-367: one pass of the loop over genes; the rows appended to
\* spot_info, or the error that ends the call
get_spots_gene(a, g) ==
    LET crop == cropped_coef_image(a.pixel_yxz, Column(a.pixel_coefs, g))
        fail(e) == [err |-> e, rows |-> <<>>]
    IN IF crop.err # NoError
       THEN fail(Raise("ValueError", "zero-size array", <<g>>))
       ELSE
       LET coef_image == crop.coef_image
           coord_shift == crop.coord_shift
           spot_yxz == IF IsNone(a.spot_yxzg)
                       THEN detect_spots(coef_image, a.coef_thresh, a.radius_xy,
                                         a.radius_z)
                       ELSE spots_of_gene(Val(a.spot_yxzg), g, coord_shift)
           \* spot_info_g[:, :coef_image.ndim] = spot_yxz[keep] needs rows of
           \* coef_image.ndim columns
           fits == Len(spot_yxz[1]) = Len(coef_image.shape)
       IN IF Len(spot_yxz) = 0
          THEN [err |-> Ok, rows |-> <<>>]
          ELSE IF IsNone(a.spot_shape)
          THEN (IF fits
                THEN [err |-> Ok, rows |-> rows_plain(spot_yxz, coord_shift, g)]
                ELSE fail(Raise("ValueError", "broadcast",
                                <<Len(spot_yxz[1]), Len(coef_image.shape)>>)))
          ELSE LET n == count_spot_neighbours(coef_image, spot_yxz,
                                              pos_filter_of(Val(a.spot_shape)),
                                              Some(neg_filter_of(Val(a.spot_shape))))
               IN IF Raised(n.err)
                  THEN fail(n.err)
                  ELSE IF fits
                  THEN [err |-> Ok,
                        rows |-> rows_with_counts(spot_yxz,
                                    keep_above(n.n_pos, a.pos_neighbour_thresh),
                                    n.n_pos, n.n_neg, coord_shift, g)]
                  ELSE fail(Raise("ValueError", "broadcast",
                                  <<Len(spot_yxz[1]), Len(coef_image.shape)>>))

\* lines 371-374: the arrays returned
get_spots_return(a, spot_info) ==
    [spot_yxz |-> [i \in DOMAIN spot_info |-> Take(spot_info[i], 3)],
     spot_gene_no |-> [i \in DOMAIN spot_info |-> spot_info[i][4]],
     n_pos_neighbours |-> IF IsNone(a.spot_shape) THEN <<>>
                          ELSE [i \in DOMAIN spot_info |-> spot_info[i][5]],
     n_neg_neighbours |-> IF IsNone(a.spot_shape) THEN <<>>
                          ELSE [i \in DOMAIN spot_info |-> spot_info[i][6]]]

\* lines 342-368 from gene g on, rows being those collected so far
RECURSIVE get_spots_loop(_, _, _)
get_spots_loop(a, g, rows) ==
    IF g = NGenes THEN [err |-> Ok, spot_info |-> rows]
    ELSE LET r == get_spots_gene(a, g) IN
         IF Raised(r.err) THEN [err |-> r.err, spot_info |-> rows]
         ELSE get_spots_loop(a, g + 1, rows \o r.rows)

\* a whole call of get_spots that is given no spots: the error it raises, or
\* the rows of spot_info behind the arrays it returns
get_spots(a) ==
    IF Raised(shape_check(a.spot_shape, a.pos_neighbour_thresh))
    THEN [err |-> shape_check(a.spot_shape, a.pos_neighbour_thresh), spot_info |-> <<>>]
    ELSE get_spots_loop(a, 0, <<>>)

(***************************************************************************)
(* utils.morphology.Strel: periodic_line, disk and the dilations it uses   *)
(***************************************************************************)
\* the value -inf of the float array nhood; only its order matters
NegInf == -1

\* a 2-D array given by its shape and the value of every cell
Array2(shape, f(_)) == [shape |-> shape, val |-> [k \in Cells(shape) |-> f(k)]]

\* a line with members on one side of the origin only
periodic_line_half(p, v) ==
    LET rc == {<<i * v[1], i * v[2]>> : i \in 0 .. p}
        rmax == Max({Abs(m[1]) : m \in rc})
        cmax == Max({Abs(m[2]) : m \in rc})
    IN Array2(<<2 * rmax + 1, 2 * cmax + 1>>,
              LAMBDA k : IF <<k[1] - rmax, k[2] - cmax>> \in rc THEN 1 ELSE 0)

\* Strel.periodic_line(p, v): members at i * v for i in -p .. p, image of
\* shape (2 * max|r| + 1, 2 * max|c| + 1) with the origin in the middle
periodic_line(p, v) ==
    LET rc == {<<i * v[1], i * v[2]>> : i \in (-p) .. p}
        rmax == Max({Abs(m[1]) : m \in rc})
        cmax == Max({Abs(m[2]) : m \in rc})
    IN Array2(<<2 * rmax + 1, 2 * cmax + 1>>,
              LAMBDA k : IF <<k[1] - rmax, k[2] - cmax>> \in rc THEN 1 ELSE 0)

\* dilate(image, kernel): scipy grey_dilation with the footprint
\* ensure_odd_kernel(kernel), the image continued with the value 0
dilate(image, kernel) ==
    LET fp == ensure_odd_kernel(kernel)
        on == {k \in Cells(fp.shape) : fp.val[k] # 0}
        at(c, k) == <<c[1] - (k[1] - (fp.shape[1] \div 2)),
                      c[2] - (k[2] - (fp.shape[2] \div 2))>>
        cells == Cells(image.shape)
    IN [shape |-> image.shape,
        val |-> [c \in cells |->
                    Max({IF at(c, k) \in cells THEN image.val[at(c, k)] ELSE 0 :
                            k \in on})]]

\* a dilation that leaves the image as it is
cv2_dilate_none(image, kshape) == image

\* cv2.dilate(image, np.ones(kshape)): the maximum over the kernel anchored at
\* its cell (kshape // 2), cells outside the image not taking part
cv2_dilate(image, kshape) ==
    LET cells == Cells(image.shape)
        at(c, k) == <<c[1] + k[1] - (kshape[1] \div 2),
                      c[2] + k[2] - (kshape[2] \div 2)>>
    IN [shape |-> image.shape,
        val |-> [c \in cells |->
                    Max({image.val[at(c, k)] :
                            k \in {k \in Cells(kshape) : at(c, k) \in cells}})]]

\* the basis vectors v of the decomposition, lines 74-79
disk_basis(n) ==
    IF n = 4 THEN <<(<<1, 0>>), <<1, 1>>, <<0, 1>>, <<-1, 1>>>>
    ELSE IF n = 6 THEN <<(<<1, 0>>), <<1, 2>>, <<2, 1>>, <<0, 1>>, <<-1, 2>>, <<-2, 1>>>>
    ELSE <<(<<1, 0>>), <<2, 1>>, <<1, 1>>, <<1, 2>>, <<0, 1>>, <<-1, 2>>, <<-1, 1>>,
           <<-2, 1>>>>

\* 10^4 * tan(pi / (4 n)), truncated: k = 2 r / (cot(theta) + 1 / sin(theta))
\* with theta = pi / (2 n) is 2 r tan(theta / 2)
tan_half_theta_e4(n) == IF n = 4 THEN 1989 ELSE IF n = 6 THEN 1317 ELSE 985

\* rp = floor(k / norm(v)): the largest p with p^2 |v|^2 <= k^2
rp_of(r, n, v) ==
    LET t == tan_half_theta_e4(n)
        v2 == v[1] * v[1] + v[2] * v[2]
    IN Max({p \in 0 .. r : p * p * v2 <= (4 * r * r * t * t) \div 100000000})

\* lines 92-97: the centre cell dilated by every periodic line in turn
RECURSIVE disk_dilations(_, _, _, _)
disk_dilations(nhood, r, n, q) ==
    IF q > n THEN nhood
    ELSE disk_dilations(dilate(nhood, periodic_line(rp_of(r, n, disk_basis(n)[q]),
                                                   disk_basis(n)[q])),
                        r, n, q + 1)

\* nhood > 0
positive(a) == [shape |-> a.shape,
                val |-> [c \in Cells(a.shape) |-> IF a.val[c] > 0 THEN 1 ELSE 0]]

\* lines 92-109
disk_decomposed(r, n) ==
    LET side == 2 * r - 1
        mid == (side - 1) \div 2
        start == Array2(<<side, side>>,
                        LAMBDA k : IF k = <<mid, mid>> THEN 1 ELSE NegInf)
        nhood == positive(disk_dilations(start, r, n, 1))
        extra_strel_size ==
            Cardinality({i \in 0 .. (side - 1) :
                            \A j \in 0 .. (side - 1) : nhood.val[<<i, j>>] = 0}) + 1
    IN positive(cv2_dilate(cv2_dilate(nhood, <<1, extra_strel_size>>),
                           <<extra_strel_size, 1>>))

\* the cells within r of the centre, open instead of closed
disk_open(r) ==
    Array2(<<2 * r + 1, 2 * r + 1>>,
           LAMBDA k : IF (k[1] - r) * (k[1] - r) + (k[2] - r) * (k[2] - r) < r * r
                      THEN 1 ELSE 0)

\* lines 56-57: xx ** 2 + yy ** 2 <= r ** 2 on the grid -r .. r
disk_direct(r) ==
    Array2(<<2 * r + 1, 2 * r + 1>>,
           LAMBDA k : IF (k[1] - r) * (k[1] - r) + (k[2] - r) * (k[2] - r) <= r * r
                      THEN 1 ELSE 0)

\* lines 52-55: a radius below 3 forces n = 0
disk_order(r, n) == IF r < 3 THEN 0 ELSE n

\* Strel.disk(r, n)
disk(r, n0) ==
    LET n == disk_order(r, n0) IN
    IF n = 0 THEN [err |-> Ok, nhood |-> Some(disk_direct(r))]
    ELSE IF n \in {4, 6, 8} THEN [err |-> Ok, nhood |-> Some(disk_decomposed(r, n))]
    ELSE [err |-> Raise("ValueError", "n", <<n>>), nhood |-> None]

\* Strel.disk_3d(r_xy, r_z): x ** 2 + y ** 2 + z ** 2 <= r_xy ** 2 on the grid
\* -r_xy .. r_xy in y and x and -r_z .. r_z in z
disk_3d(r_xy, r_z) ==
    LET shape == <<2 * r_xy + 1, 2 * r_xy + 1, 2 * r_z + 1>>
    IN [shape |-> shape,
        val |-> [k \in Cells(shape) |->
                    IF (k[1] - r_xy) * (k[1] - r_xy) + (k[2] - r_xy) * (k[2] - r_xy)
                        + (k[3] - r_z) * (k[3] - r_z) <= r_xy * r_xy
                    THEN 1 ELSE 0]]

\* the radii of Strel.annulus are floats: they are given in halves, r0_x2 = 2 r0
\* floor(r) of a radius r >= 0 given in halves
floor_x2(r_x2) == r_x2 \div 2
\* an annulus that holds the points at the inner radius too
annulus_closed(m, r0_x2, r_xy_x2) == r_xy_x2 * r_xy_x2 >= 4 * m /\ 4 * m >= r0_x2 * r0_x2
\* lines 150-151: r_xy ** 2 >= m and m > r0 ** 2
annulus_test(m, r0_x2, r_xy_x2) == r_xy_x2 * r_xy_x2 >= 4 * m /\ 4 * m > r0_x2 * r0_x2
\* Strel.annulus(r0, r_xy, r_z), r_z optional
annulus(r0_x2, r_xy_x2, r_z_x2) ==
    LET r_xy1_int == floor_x2(r_xy_x2)
        r_z1_int == IF IsNone(r_z_x2) THEN 0 ELSE floor_x2(Val(r_z_x2))
        shape == IF IsNone(r_z_x2) THEN <<2 * r_xy1_int + 1, 2 * r_xy1_int + 1>>
                 ELSE <<2 * r_xy1_int + 1, 2 * r_xy1_int + 1, 2 * r_z1_int + 1>>
        m(k) == (k[1] - r_xy1_int) * (k[1] - r_xy1_int)
                + (k[2] - r_xy1_int) * (k[2] - r_xy1_int)
                + (IF IsNone(r_z_x2) THEN 0
                   ELSE (k[3] - r_z1_int) * (k[3] - r_z1_int))
    IN [shape |-> shape,
        val |-> [k \in Cells(shape) |->
                    IF annulus_test(m(k), r0_x2, r_xy_x2) THEN 1 ELSE 0]]

(***************************************************************************)
(* spot_neighbourhood, in its three stages: the choice of the spots used    *)
(* (lines 172-229), the average over the isolated ones (lines 231-236) and  *)
(* the template cut from the average (lines 238-258)                        *)
(***************************************************************************)
\* np.ceil(np.sqrt(n)) for an integer n >= 0
ceil_sqrt(n) == Min({k \in 0 .. n : k * k >= n})

\* the side of the filter without the step that makes it odd
pos_filter_shape_yx_plain(thresh) == ceil_sqrt(thresh)
\* lines 183-186
pos_filter_shape_yx(thresh) ==
    IF ceil_sqrt(thresh) % 2 = 0 THEN ceil_sqrt(thresh) + 1 ELSE ceil_sqrt(thresh)
\* lines 187-190
pos_filter_shape_z(n_z) == IF n_z <= 2 THEN 1 ELSE 3

\* lines 191-196: ones on the middle plane and, with three planes, at the
\* middle of the two others
learn_pos_filter(thresh, n_z) ==
    LET yx == pos_filter_shape_yx(thresh)
        z == pos_filter_shape_z(n_z)
        mid_yx == yx \div 2
    IN [shape |-> <<yx, yx, z>>,
        val |-> [k \in Cells(<<yx, yx, z>>) |->
                    IF k[3] = z \div 2 THEN 1
                    ELSE IF k[1] = mid_yx /\ k[2] = mid_yx THEN 1 ELSE 0]]

\* the caller's max_size if lines 200-203 wrote into the argument itself
max_size_written(arg, local) == local
\* line 198: max_size = np.array(max_size) is a copy of the argument, so that
\* the writes of lines 200-203 leave the caller's max_size as it was
max_size_of_caller(arg, local) == arg

\* lines 198-203: one plane for data of one plane, even sizes raised by one
learn_max_size(max_size, n_z) ==
    [j \in 1 .. 3 |->
        LET m == IF n_z = 1 /\ j = 3 THEN 1 ELSE max_size[j]
        IN IF m % 2 = 0 THEN m + 1 ELSE m]

\* np.sign of an image
sign_image(image) ==
    [shape |-> image.shape,
     val |-> [c \in Cells(image.shape) |->
                IF image.val[c] > 0 THEN 1 ELSE IF image.val[c] < 0 THEN -1 ELSE 0]]

\* the value of an image at a location of three coordinates, 0 outside it;
\* an image of two axes is the plane z = 0
value_at(image, c) ==
    IF Len(image.shape) = 2
    THEN (IF c[3] = 0 /\ Take(c, 2) \in Cells(image.shape)
          THEN image.val[Take(c, 2)] ELSE 0)
    ELSE (IF c \in Cells(image.shape) THEN image.val[c] ELSE 0)

\* extract.deconvolution.get_spot_images followed by np.nan_to_num: the patch
\* of the given shape centred on the spot, 0 where the patch leaves the image
get_spot_images(image, yxz, shape) ==
    [shape |-> shape,
     val |-> [k \in Cells(shape) |->
                value_at(image, [j \in 1 .. 3 |-> yxz[j] + k[j] - (shape[j] \div 2)])]]

\* the members of a set of integers in increasing order
SortedInts(S) ==
    [n \in 1 .. Cardinality(S) |->
        CHOOSE x \in S : Cardinality({y \in S : y < x}) = n - 1]

\* a test that lets through a count one short of the filter
g_use_but_one(n_pos, total) == n_pos >= total - 1
\* line 219: n_pos_neighb == pos_filter.sum()
g_use_of(n_pos, total) == n_pos = total

\* lines 210-226 for gene g: the spots of the gene that are used and their
\* images
learn_gene(yxz, coefs, spot_yxz, spot_gene_no, g, pos_filter, max_size) ==
    LET use == {i \in DOMAIN spot_gene_no : spot_gene_no[i] = g}
        fail(e) == [err |-> e, used |-> {}, images |-> <<>>]
    IN IF use = {} THEN [err |-> Ok, used |-> {}, images |-> <<>>]
       ELSE
       LET crop == cropped_coef_image(yxz, Column(coefs, g)) IN
       IF crop.err # NoError
       THEN fail(Raise("ValueError", "zero-size array", <<g>>))
       ELSE
       LET coef_sign_image == sign_image(crop.coef_image)
           idx == SortedInts(use)
           g_spot_yxz == [n \in DOMAIN idx |-> Sub(spot_yxz[idx[n]], crop.coord_shift)]
           n == count_spot_neighbours(coef_sign_image, g_spot_yxz, pos_filter, None)
           total == SumOver(Cells(pos_filter.shape), pos_filter.val)
       IN IF Raised(n.err) THEN fail(n.err)
          ELSE LET g_use == {k \in DOMAIN idx : g_use_of(n.n_pos[k], total)}
               IN [err |-> Ok,
                   used |-> {idx[k] : k \in g_use},
                   images |-> [i \in {idx[k] : k \in g_use} |->
                        get_spot_images(coef_sign_image,
                            Sub(spot_yxz[i], crop.coord_shift), max_size)]]

\* lines 207-226: the loop over the genes, ended by the first exception
RECURSIVE learn_genes(_, _, _, _, _, _, _, _)
learn_genes(yxz, coefs, spot_yxz, spot_gene_no, g, pos_filter, max_size, acc) ==
    IF g = NGenes THEN acc
    ELSE LET r == learn_gene(yxz, coefs, spot_yxz, spot_gene_no, g, pos_filter,
                             max_size)
         IN IF Raised(r.err) THEN [acc EXCEPT !.err = r.err]
            ELSE learn_genes(yxz, coefs, spot_yxz, spot_gene_no, g + 1, pos_filter,
                             max_size,
                             [err |-> Ok, used |-> acc.used \cup r.used,
                              images |-> [i \in acc.used \cup r.used |->
                                            IF i \in r.used THEN r.images[i]
                                            ELSE acc.images[i]]])

\* a stage that never finds the spots wanting
none_used_never(spots_used) == FALSE
\* line 228: not spots_used.any()
none_used(spots_used) == \A i \in DOMAIN spots_used : ~spots_used[i]

\* lines 172-229
learn_select(yxz, coefs, a) ==
    IF yxz = <<>>
    THEN \* the maximum of an empty array
         [err |-> Raise("ValueError", "zero-size array", <<>>), pos_filter |-> None,
          max_size |-> a.max_size, spots_used |-> <<>>, spot_images |-> <<>>]
    ELSE
    LET n_z == Max({yxz[i][3] : i \in DOMAIN yxz}) + 1
        pos_filter == learn_pos_filter(a.pos_neighbour_thresh, n_z)
        max_size == learn_max_size(a.max_size, n_z)
        r == learn_genes(yxz, coefs, a.spot_yxz, a.spot_gene_no, 0, pos_filter,
                         max_size, [err |-> Ok, used |-> {}, images |-> <<>>])
        spots_used == [i \in DOMAIN a.spot_gene_no |-> i \in r.used]
        zeros == [shape |-> max_size, val |-> [k \in Cells(max_size) |-> 0]]
    IN [err |-> IF Raised(r.err) THEN r.err
                ELSE IF none_used(spots_used)
                THEN Raise("ValueError", "No spots found", <<>>)
                ELSE Ok,
        pos_filter |-> Some(pos_filter),
        max_size |-> max_size,
        spots_used |-> spots_used,
        spot_images |-> [i \in DOMAIN a.spot_gene_no |->
                            IF i \in r.used THEN r.images[i] ELSE zeros]]

\* indices that keep every spot used, isolated or not
spot_indices_all_used(used, isolated) == used
\* line 236: np.where(spots_used)[0][isolated]
spot_indices_of(used, isolated) == MaskSeq(used, isolated)

\* the squared distance of two spots, z multiplied by z_scale
scaled_dist2(p, q, z_scale) ==
    (p[1] - q[1]) * (p[1] - q[1]) + (p[2] - q[2]) * (p[2] - q[2])
    + z_scale * z_scale * (p[3] - q[3]) * (p[3] - q[3])

\* extract.deconvolution.get_isolated_points: a point is isolated if no other
\* point of the list lies within isolation_dist of it
get_isolated_points(points, z_scale, isolation_dist) ==
    [i \in DOMAIN points |->
        \A j \in DOMAIN points \ {i} :
            scaled_dist2(points[i], points[j], z_scale) > isolation_dist * isolation_dist]

\* the cells of a patch that lie in the same ring around the centre, on the
\* same plane or on the plane mirrored in the centre
annulus_of(shape, k) ==
    LET d(c) == (c[1] - shape[1] \div 2) * (c[1] - shape[1] \div 2)
                + (c[2] - shape[2] \div 2) * (c[2] - shape[2] \div 2)
        dz(c) == Abs(c[3] - shape[3] \div 2)
    IN {c \in Cells(shape) : d(c) = d(k) /\ dz(c) = dz(k)}

\* extract.deconvolution.get_average_spot_image(images, 'mean', 'annulus_3d'):
\* the mean over the images and over the cells of a ring, as a fraction
\* <<sum, number of values>>; the mean of no image is <<0, 0>>, not a number
get_average_spot_image(images, shape) ==
    [shape |-> shape,
     val |-> [k \in Cells(shape) |->
                LET ring == annulus_of(shape, k)
                    terms == (DOMAIN images) \X ring
                IN <<SumOver(terms, [t \in terms |-> images[t[1]].val[t[2]]]),
                     Cardinality(terms)>>]]

\* the integer that astype(int) makes of not-a-number: the conversion is not
\* defined; it gives the most negative integer on some machines and 0 on others
nan_as_int == {-2147483647 - 1, 0}

\* lines 239-240: zero where |mean| < mean_sign_thresh = t[1] / t[2], else the
\* sign of the mean
threshold_sign(av, t, nan) ==
    [shape |-> av.shape,
     val |-> [k \in Cells(av.shape) |->
                LET num == av.val[k][1]
                    den == av.val[k][2]
                IN IF den = 0 THEN nan
                   ELSE IF Abs(num) * t[2] < t[1] * den THEN 0
                   ELSE IF num > 0 THEN 1 ELSE IF num < 0 THEN -1 ELSE 0]]

\* the indices along axis j of the slabs that are not all zero
nonzero_slabs(a, j) ==
    {n \in 0 .. (a.shape[j] - 1) : \E k \in Cells(a.shape) : k[j] = n /\ a.val[k] # 0}

\* a cut that keeps everything between the first and the last non-zero slab
outer_crop_slabs(a, j) ==
    IF nonzero_slabs(a, j) = {} THEN {}
    ELSE Min(nonzero_slabs(a, j)) .. Max(nonzero_slabs(a, j))

\* lines 244-246: av_spot_image[:, :, ~np.all(av_spot_image == 0, axis=(0, 1))]
\* and the same along x and y: the slabs kept along axis j
kept_slabs(a, j) == nonzero_slabs(a, j)

crop_zero_slabs(a) ==
    LET keep == [j \in 1 .. 3 |-> SortedInts(kept_slabs(a, j))]
        shape == [j \in 1 .. 3 |-> Len(keep[j])]
    IN [shape |-> shape,
        val |-> [k \in Cells(shape) |-> a.val[[j \in 1 .. 3 |-> keep[j][k[j] + 1]]]]]

(***************************************************************************)
(* State                                                                   *)
(***************************************************************************)
VARIABLES
    pixel_yxz,      \* int [n_pixels x 3], distinct rows
    pixel_coefs,    \* [n_pixels x n_genes]
    cc_gene,        \* the column handed to cropped_coef_image
    cc_pc,          \* "call" before cropped_coef_image ran, "done" after
    cc_out,         \* its result
    coef_thresh,    \* arguments of get_spots
    spot_shape,
    pos_neighbour_thresh,
    spot_yxzg,
    gs_pc,          \* "check", "genes", then "returned" or "raised"
    gs_g,           \* the gene the loop of get_spots is at
    spot_info,      \* the rows get_spots has collected
    gs_err,         \* the exception get_spots raised
    gs_ret,         \* the arrays get_spots returned
    tile_origin,    \* call_spots_omp: yxz origin of every tile, row t + 1 for tile t
    omp_spot_shape_file,    \* the array stored in nbp_file.omp_spot_shape, if the file exists
    initial_pos_neighbour_thresh,   \* config['initial_pos_neighbour_thresh']
    use_tiles,      \* the tiles in the order they are processed
    omp_t_centre,   \* the local t_centre of call_spots_omp, once select_tile returned it
    tile_i,         \* number of passes of the loop over use_tiles that have ended
    omp_spot_shape, \* the local spot_shape of call_spots_omp
    n_learn,        \* number of calls of spot_neighbourhood so far
    omp_spot_info,  \* rows <<y, x, z, gene, n_pos, n_neg, tile>> of all tiles
    omp_spot_coefs, \* the row of pixel_coefs_t of every row of omp_spot_info
    all_nearest_tile,   \* the tile with the nearest centre, for every row
    nbp,            \* the notebook page written
    omp_pc,         \* "start", "tiles", then "done" or "raised"
    omp_err,        \* the exception call_spots_omp ended with
    st_r,           \* arguments of Strel.disk
    st_n,
    st_pc,          \* "call" before Strel.disk ran, then "returned" or "raised"
    st_out,         \* its result
    csn_image,      \* arguments of count_spot_neighbours
    csn_spot_yxz,
    csn_pos_filter,
    csn_neg_filter,
    csn_pc,         \* "call" before count_spot_neighbours ran, then "returned" or "raised"
    csn_out,        \* its result
    sn_args,        \* arguments of spot_neighbourhood other than the pixel table
    sn_pc,          \* "select", "average", "template", then "returned" or "raised"
    sn_sel,         \* pos_filter, max_size, spots_used and spot_images after the loop over genes
    sn_avg,         \* isolated, spot_indices_used and av_spot_image_float
    sn_out,         \* the exception raised or the av_spot_image returned
    mk_call,        \* a call of one of the Strel operations: its name and arguments
    mk_pc,          \* "call" before it ran, then "returned" or "raised"
    mk_out,         \* the mask returned, if any
    config,         \* extract_and_filter: config['r1'], ['r2'] and ['r_dapi']
    auto_length,    \* what get_pixel_length returns for r1_auto_microns and r_dapi_auto_microns
    nbp_debug,      \* the fields r1, r2 and r_dapi of the page extract_debug
    filter_kernel,  \* the kernel hanning_diff returned
    filter_kernel_dapi, \* the kernel of the top-hat filter of the DAPI images
    ex_pc,          \* "radii", "kernels", then "filtering" or "raised"
    ex_err          \* the exception extract_and_filter ended with

table_vars == <<pixel_yxz, pixel_coefs>>
cc_vars == <<cc_gene, cc_pc, cc_out>>
gs_args == <<coef_thresh, spot_shape, pos_neighbour_thresh, spot_yxzg>>
gs_vars == <<gs_pc, gs_g, spot_info, gs_err, gs_ret>>
omp_in == <<tile_origin, initial_pos_neighbour_thresh>>
omp_vars == <<omp_spot_shape_file, use_tiles, omp_t_centre, tile_i, omp_spot_shape, n_learn,
              omp_spot_info, omp_spot_coefs, all_nearest_tile, nbp, omp_pc, omp_err>>
st_vars == <<st_r, st_n, st_pc, st_out>>
csn_args == <<csn_image, csn_spot_yxz, csn_pos_filter, csn_neg_filter>>
csn_vars == <<csn_args, csn_pc, csn_out>>
sn_vars == <<sn_args, sn_pc, sn_sel, sn_avg, sn_out>>
mk_vars == <<mk_call, mk_pc, mk_out>>
ex_in == <<auto_length>>
ex_vars == <<config, ex_in, nbp_debug, filter_kernel, filter_kernel_dapi, ex_pc, ex_err>>
lib_vars == <<st_vars, csn_vars, sn_vars, mk_vars, ex_vars>>
vars == <<table_vars, cc_vars, gs_args, gs_vars, omp_in, omp_vars, lib_vars>>

\* pixel tables: up to MaxPix distinct locations in raster order, one row of
\* coefficients each
PixelLocs ==
    {s \in UNION {[1 .. n -> Grid] : n \in 1 .. MaxPix} :
        \A i \in 1 .. (Len(s) - 1) : LexLess(s[i], s[i + 1])}

NoCrop == [err |-> "pending", coef_image |-> None, coord_shift |-> None]
NoReturn == [spot_yxz |-> <<>>, spot_gene_no |-> <<>>, n_pos_neighbours |-> <<>>,
             n_neg_neighbours |-> <<>>]

IdleCrop ==
    /\ cc_gene = 0
    /\ cc_pc = "idle"
    /\ cc_out = NoCrop

NoPage == [shape_tile |-> None, spot_shape |-> None, local_yxz |-> <<>>, tile |-> <<>>,
           gene_no |-> <<>>, coef |-> <<>>, n_neighbours_pos |-> <<>>,
           n_neighbours_neg |-> <<>>]

IdleOmp ==
    /\ tile_origin = <<>>
    /\ omp_spot_shape_file = None
    /\ initial_pos_neighbour_thresh = 0
    /\ use_tiles = <<>>
    /\ omp_t_centre = None
    /\ tile_i = 0
    /\ omp_spot_shape = None
    /\ n_learn = 0
    /\ omp_spot_info = <<>>
    /\ omp_spot_coefs = <<>>
    /\ all_nearest_tile = <<>>
    /\ nbp = NoPage
    /\ omp_pc = "idle"
    /\ omp_err = Ok

IdleGetSpots ==
    /\ coef_thresh = 0
    /\ spot_shape = None
    /\ pos_neighbour_thresh = 0
    /\ spot_yxzg = None
    /\ gs_pc = "idle"
    /\ gs_g = 0
    /\ spot_info = <<>>
    /\ gs_err = Ok
    /\ gs_ret = NoReturn

NoDisk == [err |-> Ok, nhood |-> None]

IdleStrel ==
    /\ st_r = 0
    /\ st_n = 0
    /\ st_pc = "idle"
    /\ st_out = NoDisk

NoCount == [err |-> Ok, n_pos |-> <<>>, n_neg |-> <<>>]

IdleCount ==
    /\ csn_image = None
    /\ csn_spot_yxz = <<>>
    /\ csn_pos_filter = None
    /\ csn_neg_filter = None
    /\ csn_pc = "idle"
    /\ csn_out = NoCount

NoArgs == [spot_yxz |-> <<>>, spot_gene_no |-> <<>>, max_size |-> <<1, 1, 1>>,
           pos_neighbour_thresh |-> 0, isolation_dist |-> 0, z_scale |-> 1,
           mean_sign_thresh |-> <<0, 1>>]
NoSelection == [err |-> Ok, pos_filter |-> None, max_size |-> <<1, 1, 1>>,
                spots_used |-> <<>>, spot_images |-> <<>>]
NoAverage == [isolated |-> <<>>, spot_indices_used |-> <<>>, av_spot_image_float |-> None]
NoTemplate == [err |-> Ok, av_spot_image |-> None]

IdleLearn ==
    /\ sn_args = NoArgs
    /\ sn_pc = "idle"
    /\ sn_sel = NoSelection
    /\ sn_avg = NoAverage
    /\ sn_out = NoTemplate

NoCall == [op |-> "none"]

IdleMask ==
    /\ mk_call = NoCall
    /\ mk_pc = "idle"
    /\ mk_out = None

NoRadii == [r1 |-> None, r2 |-> None, r_dapi |-> None]

IdleExtract ==
    /\ config = NoRadii
    /\ auto_length = [r1 |-> 0, r_dapi |-> 0]
    /\ nbp_debug = NoRadii
    /\ filter_kernel = None
    /\ filter_kernel_dapi = None
    /\ ex_pc = "idle"
    /\ ex_err = Ok

IdleLib == IdleStrel /\ IdleCount /\ IdleLearn /\ IdleMask /\ IdleExtract

\* no pixel table
IdleTable ==
    /\ pixel_yxz = <<>>
    /\ pixel_coefs = <<>>

(***************************************************************************)
(* cropped_coef_image called on one column of a pixel table                *)
(***************************************************************************)
InitCrop ==
    /\ pixel_yxz \in PixelLocs
    /\ pixel_coefs \in [1 .. Len(pixel_yxz) -> CoefRows]
    /\ cc_gene \in Genes
    /\ cc_pc = "call"
    /\ cc_out = NoCrop
    /\ IdleGetSpots
    /\ IdleOmp
    /\ IdleLib

CallCrop ==
    /\ cc_pc = "call"
    /\ cc_pc' = "done"
    /\ cc_out' = cropped_coef_image(pixel_yxz, Column(pixel_coefs, cc_gene))
    /\ UNCHANGED <<table_vars, cc_gene, gs_args, gs_vars, omp_in, omp_vars, lib_vars>>

NextCrop == CallCrop

SpecCrop == InitCrop /\ [][NextCrop]_vars

(***************************************************************************)
(* get_spots                                                               *)
(***************************************************************************)
\* radii of the structuring element of detect_spots
RadiusXY == 1
RadiusZ == 1
\* largest pos_neighbour_thresh tried
MaxThresh == 2

Shape3(shape, f(_)) == [shape |-> shape, val |-> [k \in Cells(shape) |-> f(k)]]
\* expected sign along x: negative, spot (positive), positive
ShapeX == Shape3(<<1, 3, 1>>, LAMBDA k : IF k[2] = 0 THEN -1 ELSE 1)
\* expected sign along z: positive, spot (positive), negative
ShapeZ == Shape3(<<1, 1, 3>>, LAMBDA k : IF k[3] = 2 THEN -1 ELSE 1)
\* a shape cropped to an even extent: spot (positive), negative
ShapeY == Shape3(<<2, 1, 1>>, LAMBDA k : IF k[1] = 0 THEN 1 ELSE -1)
\* nothing expected around the spot but zeros and one sign
ShapeNoPos == Shape3(<<1, 1, 1>>, LAMBDA k : -1)
ShapeNoNeg == Shape3(<<1, 1, 1>>, LAMBDA k : 1)
ValidShapes == {ShapeX, ShapeZ, ShapeY}

CoefThreshs == {0, 1}
\* the supplied spots are the (pixel, gene) pairs whose coefficient is at least m
CandidateMins == {-1, 1, 3}
spots_from(yxz, coefs, m) ==
    SortedSeq({yxz[p[1]] \o <<p[2]>> :
                p \in {p \in (DOMAIN yxz) \X Genes : coefs[p[1]][p[2] + 1] >= m}})

GetSpotsCalls ==
    {[shape |-> Some(t), thresh |-> n, cthresh |-> 0, cand |-> None] :
        t \in ValidShapes, n \in 0 .. MaxThresh}
    \cup {[shape |-> Some(t), thresh |-> 0, cthresh |-> 0, cand |-> None] :
            t \in {ShapeNoPos, ShapeNoNeg}}
    \cup {[shape |-> None, thresh |-> 0, cthresh |-> c, cand |-> None] :
            c \in CoefThreshs}
    \cup {[shape |-> s, thresh |-> 0, cthresh |-> 0, cand |-> Some(m)] :
            s \in {None, Some(ShapeX), Some(ShapeZ)}, m \in CandidateMins}

GetSpotsArgs ==
    [pixel_yxz |-> pixel_yxz, pixel_coefs |-> pixel_coefs, radius_xy |-> RadiusXY,
     radius_z |-> RadiusZ, coef_thresh |-> coef_thresh, spot_shape |-> spot_shape,
     pos_neighbour_thresh |-> pos_neighbour_thresh, spot_yxzg |-> spot_yxzg]

InitGetSpots ==
    /\ pixel_yxz \in PixelLocs
    /\ pixel_coefs \in [1 .. Len(pixel_yxz) -> CoefRows]
    /\ \E c \in GetSpotsCalls :
        /\ coef_thresh = c.cthresh
        /\ spot_shape = c.shape
        /\ pos_neighbour_thresh = c.thresh
        /\ spot_yxzg = IF IsNone(c.cand) THEN None
                       ELSE Some(spots_from(pixel_yxz, pixel_coefs, Val(c.cand)))
    /\ gs_pc = "check"
    /\ gs_g = 0
    /\ spot_info = <<>>
    /\ gs_err = Ok
    /\ gs_ret = NoReturn
    /\ IdleCrop
    /\ IdleOmp
    /\ IdleLib

\* lines 308-338
GetSpotsCheck ==
    /\ gs_pc = "check"
    /\ \E e \in (IF Raised(shape_check(spot_shape, pos_neighbour_thresh))
                 THEN {shape_check(spot_shape, pos_neighbour_thresh)}
                 ELSE candidate_check(GetSpotsArgs)) :
        /\ gs_err' = e
        /\ gs_pc' = IF Raised(e) THEN "raised" ELSE "genes"
    /\ UNCHANGED <<table_vars, cc_vars, gs_args, gs_g, spot_info, gs_ret, omp_in, omp_vars, lib_vars>>

\* lines 342-368, one gene
GetSpotsGene ==
    /\ gs_pc = "genes"
    /\ gs_g < NGenes
    /\ LET r == get_spots_gene(GetSpotsArgs, gs_g) IN
        /\ gs_err' = r.err
        /\ gs_pc' = IF Raised(r.err) THEN "raised" ELSE "genes"
        /\ gs_g' = IF Raised(r.err) THEN gs_g ELSE gs_g + 1
        /\ spot_info' = spot_info \o r.rows
    /\ UNCHANGED <<table_vars, cc_vars, gs_args, gs_ret, omp_in, omp_vars, lib_vars>>

\* lines 371-374
GetSpotsReturn ==
    /\ gs_pc = "genes"
    /\ gs_g = NGenes
    /\ gs_pc' = "returned"
    /\ gs_ret' = get_spots_return(GetSpotsArgs, spot_info)
    /\ UNCHANGED <<table_vars, cc_vars, gs_args, gs_g, spot_info, gs_err, omp_in, omp_vars, lib_vars>>

NextGetSpots == GetSpotsCheck \/ GetSpotsGene \/ GetSpotsReturn

SpecGetSpots == InitGetSpots /\ [][NextGetSpots]_vars

(***************************************************************************)
(* call_spots_omp                                                          *)
(* The pixels of a tile and their coefficients come from get_all_pixel_    *)
(* colors and omp.get_all_coefs: they are inputs the loop draws for every  *)
(* tile. The colours, background and intensity written after line 139 do   *)
(* not act on the spots kept and are left out.                             *)
(***************************************************************************)
\* nbp_basic.use_tiles
nbp_basic_use_tiles == <<0, 1>>
\* extent of a tile along y, x, z
TileSz == <<1, 3, 2>>
\* largest number of retained pixels of a tile in a run of call_spots_omp
TilePix == 1
TileRows == {<<1, 1>>, <<2, -1>>}
TileLocs ==
    {s \in UNION {[1 .. n -> Cells(TileSz)] : n \in 0 .. TilePix} :
        \A i \in 1 .. (Len(s) - 1) : LexLess(s[i], s[i + 1])}
\* pixel_yxz_t and pixel_coefs_t after lines 66-94
TileTables ==
    UNION {{[pixel_yxz |-> s, pixel_coefs |-> c] : c \in [1 .. Len(s) -> TileRows]} :
            s \in TileLocs}
\* tile 1 overlaps tile 0 by two columns, by one column, or lies diagonally
TileOrigins ==
    {<<<<0, 0, 0>>, o>> : o \in {<<0, 1, 1>>, <<0, 2, 0>>, <<1, 1, 0>>}}

\* the file holds unsigned integers of 16 bits
uint16(v) == v % 65536
\* a template stored as it is, without adding 1
save_shape_unshifted(shape) ==
    [shape |-> shape.shape, val |-> [k \in Cells(shape.shape) |-> uint16(shape.val[k])]]
\* utils.tiff.save(spot_shape + 1, ...) and utils.tiff.load(...).astype(int) - 1
save_shape(shape) ==
    [shape |-> shape.shape,
     val |-> [k \in Cells(shape.shape) |-> uint16(shape.val[k] + 1)]]
load_shape(file) ==
    [shape |-> file.shape, val |-> [k \in Cells(file.shape) |-> file.val[k] - 1]]

\* the tiles left in the order of nbp_basic.use_tiles
central_first_unmoved(tiles, t_centre) == tiles
\* line 52: the tile at index t_centre_ind and the first tile change places
central_first(tiles, t_centre) ==
    LET t_centre_ind == Min({i \in DOMAIN tiles : tiles[i] = t_centre})
    IN [i \in DOMAIN tiles |->
            IF i = 1 THEN tiles[t_centre_ind]
            ELSE IF i = t_centre_ind THEN tiles[1] ELSE tiles[i]]

\* the arguments of the calls of get_spots in lines 98 and 111
tile_args(table, shape, thresh) ==
    [pixel_yxz |-> table.pixel_yxz, pixel_coefs |-> table.pixel_coefs,
     radius_xy |-> RadiusXY, radius_z |-> RadiusZ, coef_thresh |-> 0,
     spot_shape |-> shape, pos_neighbour_thresh |-> thresh, spot_yxzg |-> None]

\* the templates spot_neighbourhood may return
LearnedShapes == {ShapeX, ShapeNoNeg}
\* spot_neighbourhood, by its outcomes: it raises when it uses no spot (always
\* so when it is given none), else it returns a template; a template without
\* -1 only draws a warning
spot_neighbourhood(spots) ==
    {[err |-> Raise("ValueError", "spots_used", <<>>), shape |-> None]}
    \cup (IF spots = <<>> THEN {}
          ELSE {[err |-> Ok, shape |-> Some(t)] : t \in LearnedShapes})

needs_learning_always(shape) == TRUE
\* line 96: if spot_shape is None
needs_learning(shape) == IsNone(shape)

\* lines 96-108 up to the template: called tells whether spot_neighbourhood ran
learn_shape(table) ==
    LET found == get_spots(tile_args(table, None, 0)) IN
    IF Raised(found.err)
    THEN {[err |-> found.err, shape |-> None, called |-> FALSE]}
    ELSE {[err |-> o.err, shape |-> o.shape, called |-> TRUE] :
            o \in spot_neighbourhood(found.spot_info)}

\* twice nbp_basic.tile_centre, which is (tile_sz - 1) / 2 along every axis
tile_centre_x2 == [j \in 1 .. 3 |-> TileSz[j] - 1]
\* line 131, doubled: tile_centres = tile_origin + nbp_basic.tile_centre
tile_centres_x2(origin) ==
    [t \in DOMAIN origin |-> [j \in 1 .. 3 |-> 2 * origin[t][j] + tile_centre_x2[j]]]

spot_local_as_global(row, origin) == Take(row, 3)
\* line 133: spot_info[:, :3] + tile_origin[spot_info[:, 6]]
spot_global_yxz(row, origin) == Add(Take(row, 3), origin[row[7] + 1])

\* four times the squared distance in the plane from yx to a doubled centre
dist_x4(yx, centre_x2) ==
    (2 * yx[1] - centre_x2[1]) * (2 * yx[1] - centre_x2[1])
    + (2 * yx[2] - centre_x2[2]) * (2 * yx[2] - centre_x2[2])
\* the tiles whose centre is nearest to yx
nearest_tiles(yx, origin) ==
    {t - 1 : t \in {t \in DOMAIN origin :
        \A u \in DOMAIN origin :
            dist_x4(yx, tile_centres_x2(origin)[t]) <= dist_x4(yx, tile_centres_x2(origin)[u])}}
\* lines 132, 134: what kneighbors may answer for a set of query points; equal
\* points get equal answers, and among equally near centres any may be named
kneighbors(origin, queries) ==
    {f \in [queries -> {t - 1 : t \in DOMAIN origin}] :
        \A q \in queries : f[q] \in nearest_tiles(q, origin)}

not_duplicate_all(nearest, tile) == TRUE
\* line 135
not_duplicate(nearest, tile) == nearest = tile
\* every row of spot_coefs, the duplicates too
spot_coefs_unmasked(spot_coefs, keep) == spot_coefs
\* line 160: spot_coefs[not_duplicate]
spot_coefs_kept(spot_coefs, keep) == MaskSeq(spot_coefs, keep)

omp_spots_vars == <<table_vars, cc_vars, gs_args, gs_vars, lib_vars>>

InitOmp ==
    /\ tile_origin \in TileOrigins
    /\ omp_spot_shape_file \in {None, Some(save_shape(ShapeX))}
    /\ initial_pos_neighbour_thresh \in 0 .. 1
    /\ use_tiles = nbp_basic_use_tiles
    /\ omp_t_centre = None
    /\ tile_i = 0
    /\ omp_spot_shape = None
    /\ n_learn = 0
    /\ omp_spot_info = <<>>
    /\ omp_spot_coefs = <<>>
    /\ all_nearest_tile = <<>>
    /\ nbp = NoPage
    /\ omp_pc = "start"
    /\ omp_err = Ok
    /\ pixel_yxz = <<>>
    /\ pixel_coefs = <<>>
    /\ IdleCrop
    /\ IdleGetSpots
    /\ IdleLib

\* lines 47-63
OmpStart ==
    /\ omp_pc = "start"
    /\ omp_pc' = "tiles"
    /\ IF IsNone(omp_spot_shape_file)
       THEN \E t_centre \in Range(use_tiles) :
                /\ omp_t_centre' = Some(t_centre)
                /\ use_tiles' = central_first(use_tiles, t_centre)
                /\ omp_spot_shape' = None
                /\ nbp' = nbp
       ELSE /\ use_tiles' = use_tiles
            /\ omp_t_centre' = omp_t_centre
            /\ omp_spot_shape' = Some(load_shape(Val(omp_spot_shape_file)))
            /\ nbp' = [nbp EXCEPT !.shape_tile = None]
    /\ UNCHANGED <<omp_spot_shape_file, tile_i, n_learn, omp_spot_info, omp_spot_coefs,
                   all_nearest_tile, omp_err, omp_in, omp_spots_vars>>

\* lines 64-125: one pass of the loop over use_tiles; pixel_yxz and pixel_coefs
\* hold pixel_yxz_t and pixel_coefs_t of the pass
OmpTile ==
    /\ omp_pc = "tiles"
    /\ tile_i < Len(use_tiles)
    /\ \E table \in TileTables :
       \E l \in (IF needs_learning(omp_spot_shape) THEN learn_shape(table)
                 ELSE {[err |-> Ok, shape |-> omp_spot_shape, called |-> FALSE]}) :
       \E found \in {IF Raised(l.err) THEN [err |-> l.err, spot_info |-> <<>>]
                     ELSE get_spots(tile_args(table, l.shape,
                                              initial_pos_neighbour_thresh))} :
            LET t == use_tiles[tile_i + 1]
                learning == needs_learning(omp_spot_shape)
                spot_info_t == [k \in DOMAIN found.spot_info |-> found.spot_info[k] \o <<t>>]
                spot_coefs_t ==
                    [k \in DOMAIN found.spot_info |->
                        table.pixel_coefs[Max(pixel_index_of(table.pixel_yxz,
                                                             Take(found.spot_info[k], 3)))]]
            IN /\ n_learn' = n_learn + (IF l.called THEN 1 ELSE 0)
               /\ nbp' = IF learning THEN [nbp EXCEPT !.shape_tile = Some(t)] ELSE nbp
               /\ omp_spot_shape' = IF Raised(l.err) THEN omp_spot_shape ELSE l.shape
               /\ omp_spot_shape_file' =
                    IF learning /\ ~Raised(l.err) THEN Some(save_shape(Val(l.shape)))
                    ELSE omp_spot_shape_file
               /\ IF Raised(found.err)
                  THEN /\ omp_pc' = "raised"
                       /\ omp_err' = found.err
                       /\ UNCHANGED <<tile_i, omp_spot_info, omp_spot_coefs>>
                  ELSE /\ tile_i' = tile_i + 1
                       /\ omp_spot_info' = omp_spot_info \o spot_info_t
                       /\ omp_spot_coefs' = omp_spot_coefs \o spot_coefs_t
                       /\ UNCHANGED <<omp_pc, omp_err>>
       /\ pixel_yxz' = table.pixel_yxz
       /\ pixel_coefs' = table.pixel_coefs
    /\ UNCHANGED <<use_tiles, omp_t_centre, all_nearest_tile, omp_in, cc_vars, gs_args,
                   gs_vars, lib_vars>>

\* lines 127-164; kneighbors refuses an empty array of points
OmpFinish ==
    /\ omp_pc = "tiles"
    /\ tile_i = Len(use_tiles)
    /\ IF omp_spot_info = <<>>
       THEN /\ omp_pc' = "raised"
            /\ omp_err' = Raise("ValueError", "kneighbors", <<>>)
            /\ nbp' = [nbp EXCEPT !.spot_shape = omp_spot_shape]
            /\ UNCHANGED all_nearest_tile
       ELSE \E nearest \in kneighbors(tile_origin,
                    {Take(spot_global_yxz(omp_spot_info[k], tile_origin), 2) :
                        k \in DOMAIN omp_spot_info}) :
            LET nearest_of == [k \in DOMAIN omp_spot_info |->
                    nearest[Take(spot_global_yxz(omp_spot_info[k], tile_origin), 2)]]
                keep == [k \in DOMAIN omp_spot_info |->
                            not_duplicate(nearest_of[k], omp_spot_info[k][7])]
                kept == MaskSeq(omp_spot_info, keep)
            IN /\ all_nearest_tile' = nearest_of
               /\ nbp' = [nbp EXCEPT
                            !.spot_shape = omp_spot_shape,
                            !.local_yxz = [k \in DOMAIN kept |-> Take(kept[k], 3)],
                            !.tile = [k \in DOMAIN kept |-> kept[k][7]],
                            !.coef = spot_coefs_kept(omp_spot_coefs, keep),
                            !.gene_no = [k \in DOMAIN kept |-> kept[k][4]],
                            !.n_neighbours_pos = [k \in DOMAIN kept |-> kept[k][5]],
                            !.n_neighbours_neg = [k \in DOMAIN kept |-> kept[k][6]]]
               /\ omp_pc' = "done"
               /\ omp_err' = omp_err
    /\ UNCHANGED <<omp_spot_shape_file, use_tiles, omp_t_centre, tile_i, omp_spot_shape,
                   n_learn, omp_spot_info, omp_spot_coefs, omp_in, omp_spots_vars>>

Next == OmpStart \/ OmpTile \/ OmpFinish

Spec == InitOmp /\ [][Next]_vars

(***************************************************************************)
(* The template of call_spots_omp, saved by the run that learns it and     *)
(* loaded by a later run                                                   *)
(***************************************************************************)
\* the templates of the values -1, 0 and 1 of some small shapes
TernaryTemplates ==
    UNION {{[shape |-> sh, val |-> f] : f \in [Cells(sh) -> {-1, 0, 1}]} :
            sh \in {<<1, 3, 1>>, <<1, 1, 3>>, <<1, 1, 1>>, <<1, 2, 2>>}}

\* a run has learned the template spot_shape (line 101)
InitPersist ==
    /\ omp_spot_shape \in {Some(t) : t \in TernaryTemplates}
    /\ omp_spot_shape_file = None
    /\ omp_pc = "learned"
    /\ tile_origin = <<>>
    /\ initial_pos_neighbour_thresh = 0
    /\ use_tiles = <<>>
    /\ omp_t_centre = None
    /\ tile_i = 0
    /\ n_learn = 1
    /\ omp_spot_info = <<>>
    /\ omp_spot_coefs = <<>>
    /\ all_nearest_tile = <<>>
    /\ nbp = NoPage
    /\ omp_err = Ok
    /\ IdleTable
    /\ IdleCrop
    /\ IdleGetSpots
    /\ IdleLib

persist_unchanged == <<use_tiles, omp_t_centre, tile_i, n_learn, omp_spot_info, omp_spot_coefs,
                       all_nearest_tile, omp_err, omp_in, omp_spots_vars>>

\* lines 107 and 127: the run that learned the template saves it, detects with
\* it and records it
PersistSave ==
    /\ omp_pc = "learned"
    /\ omp_spot_shape_file' = Some(save_shape(Val(omp_spot_shape)))
    /\ nbp' = [nbp EXCEPT !.spot_shape = omp_spot_shape]
    /\ omp_pc' = "saved"
    /\ UNCHANGED <<omp_spot_shape, persist_unchanged>>

\* lines 48 and 54-60: a later run finds the file and loads the template
PersistLoad ==
    /\ omp_pc = "saved"
    /\ ~IsNone(omp_spot_shape_file)
    /\ omp_spot_shape' = Some(load_shape(Val(omp_spot_shape_file)))
    /\ omp_pc' = "loaded"
    /\ UNCHANGED <<omp_spot_shape_file, nbp, persist_unchanged>>

NextPersist == PersistSave \/ PersistLoad

SpecPersist == InitPersist /\ [][NextPersist]_vars

(***************************************************************************)
(* Strel.disk called with a radius and a decomposition order               *)
(***************************************************************************)
\* largest radius tried
MaxRadius == 5
\* the orders tried: the four of the documentation and others
DiskOrders == {0, 4, 6, 8} \cup {1, 2, 3, 5, 7, 9, 12, -1}

InitStrel ==
    /\ st_r \in 0 .. MaxRadius
    /\ st_n \in DiskOrders
    /\ st_pc = "call"
    /\ st_out = NoDisk
    /\ IdleCount
    /\ IdleLearn
    /\ IdleMask
    /\ IdleExtract
    /\ IdleTable
    /\ IdleCrop
    /\ IdleGetSpots
    /\ IdleOmp

CallDisk ==
    /\ st_pc = "call"
    /\ \E out \in {disk(st_r, st_n)} :
        /\ st_out' = out
        /\ st_pc' = IF Raised(out.err) THEN "raised" ELSE "returned"
    /\ UNCHANGED <<table_vars, cc_vars, gs_args, gs_vars, omp_in, omp_vars, st_r, st_n, csn_vars,
                   sn_vars, mk_vars, ex_vars>>

NextStrel == CallDisk

SpecStrel == InitStrel /\ [][NextStrel]_vars

(***************************************************************************)
(* count_spot_neighbours called on an image, a list of locations and masks *)
(***************************************************************************)
\* every array of a shape with values drawn from a set
ArraysOf(shape, values) ==
    {[shape |-> shape, val |-> v] : v \in [Cells(shape) -> values]}

\* images of one plane with both signs, and positive images of two ranks
CountImages ==
    ArraysOf(<<1, 3>>, {-1, 1})
    \cup ArraysOf(<<2, 2>>, {1, 2})
    \cup ArraysOf(<<1, 2, 2>>, {1, 2})

\* masks of ones of odd and even extent and of both ranks, a mask with a
\* zero, and a mask that holds a value other than 0 and 1
CountFilters ==
    UNION {ArraysOf(sh, {1}) :
            sh \in {<<1, 1>>, <<1, 3>>, <<1, 2>>, <<1, 3, 1>>, <<1, 1, 3>>, <<1, 2, 2>>}}
    \cup {[shape |-> <<1, 3>>, val |-> [k \in Cells(<<1, 3>>) |-> IF k[2] = 1 THEN 0 ELSE 1]],
          [shape |-> <<1, 1>>, val |-> [k \in Cells(<<1, 1>>) |-> 2]]}

\* locations of two and of three columns, inside and outside the images
CountRows2 == {<<0, 0>>, <<0, 1>>, <<0, 2>>, <<1, 1>>, <<0, -1>>}
CountRows3 == {<<0, 1, 0>>, <<0, 1, 1>>, <<0, 1, -1>>, <<0, 2, 0>>}
CountSpots ==
    UNION {[1 .. n -> CountRows2] \cup [1 .. n -> CountRows3] : n \in 1 .. 2}

\* the masks of a call: a positive mask alone, or a mask of one cell for
\* each sign
CountMasks ==
    {[pos |-> f, neg |-> None] : f \in CountFilters}
    \cup {[pos |-> f, neg |-> Some(g)] : f, g \in ArraysOf(<<1, 1>>, {1, 2})}

InitCount ==
    /\ csn_image \in {Some(i) : i \in CountImages}
    /\ \E m \in CountMasks :
        /\ csn_pos_filter = Some(m.pos)
        /\ csn_neg_filter = m.neg
    /\ csn_spot_yxz \in CountSpots
    /\ csn_pc = "call"
    /\ csn_out = NoCount
    /\ IdleStrel
    /\ IdleLearn
    /\ IdleMask
    /\ IdleExtract
    /\ IdleTable
    /\ IdleCrop
    /\ IdleGetSpots
    /\ IdleOmp

CallCount ==
    /\ csn_pc = "call"
    /\ \E out \in {count_spot_neighbours(Val(csn_image), csn_spot_yxz,
                                          Val(csn_pos_filter), csn_neg_filter)} :
        /\ csn_out' = out
        /\ csn_pc' = IF Raised(out.err) THEN "raised" ELSE "returned"
    /\ UNCHANGED <<table_vars, cc_vars, gs_args, gs_vars, omp_in, omp_vars, st_vars, csn_args,
                   sn_vars, mk_vars, ex_vars>>

NextCount == CallCount

SpecCount == InitCount /\ [][NextCount]_vars

(***************************************************************************)
(* spot_neighbourhood called on a pixel table and the spots found in it    *)
(***************************************************************************)
\* the pixel table of the given locations: the pixels with a non-zero
\* coefficient of some gene (omp.py line 90), in raster order
TableOf(rowOf) ==
    LET yxz == SortedSeq({c \in DOMAIN rowOf : rowOf[c] # <<0, 0>>})
    IN [yxz |-> yxz, coefs |-> [i \in DOMAIN yxz |-> rowOf[yxz[i]]]]

\* spots of the given genes at every pixel where the gene's coefficient is
\* positive, ordered by gene and then in raster order as get_spots returns them
SpotsAt(t, genes) ==
    LET s == SortedSeq({<<g>> \o t.yxz[i] : <<g, i>> \in
                            {p \in genes \X DOMAIN t.yxz : t.coefs[p[2]][p[1] + 1] > 0}})
    IN [spot_yxz |-> [n \in DOMAIN s |-> Tail(s[n])],
        spot_gene_no |-> [n \in DOMAIN s |-> s[n][1]]]

LearnSpotChoices == {Genes, {0}, {}}

\* a spot of gene 0 in the middle of a 3 x 3 plane whose other pixels have a
\* coefficient of gene 0 that is positive or zero
RingLocs == (0 .. 2) \X (0 .. 2) \X {0}
RingCentre == <<1, 1, 0>>
RingTables ==
    {TableOf([c \in RingLocs |-> IF c = RingCentre THEN <<2, 0>> ELSE f[c]]) :
        f \in [RingLocs -> {<<1, 0>>, <<0, 0>>}]}
RingCalls ==
    {[table |-> t,
      args |-> [spot_yxz |-> <<RingCentre>>, spot_gene_no |-> <<0>>,
                max_size |-> <<3, 3, 1>>, pos_neighbour_thresh |-> th,
                isolation_dist |-> 1, z_scale |-> 1, mean_sign_thresh |-> <<1, 2>>]] :
        t \in RingTables, th \in {8, 9}}

\* one row of five pixels
RowLocs == {0} \X (0 .. 4) \X {0}
LearnRows == {<<0, 0>>, <<1, 0>>, <<-1, 0>>, <<1, 1>>}
RowCalls ==
    {[table |-> TableOf(f),
      args |-> [spot_yxz |-> SpotsAt(TableOf(f), gs).spot_yxz,
                spot_gene_no |-> SpotsAt(TableOf(f), gs).spot_gene_no,
                max_size |-> <<1, 5, 1>>, pos_neighbour_thresh |-> 1,
                isolation_dist |-> 1, z_scale |-> 1, mean_sign_thresh |-> mst]] :
        f \in [RowLocs -> LearnRows] \ {[c \in RowLocs |-> <<0, 0>>]},
        gs \in LearnSpotChoices, mst \in {<<1, 2>>, <<1, 4>>}}

\* one column of four planes
ColumnLocs == {0} \X {0} \X (0 .. 3)
\* max_size, pos_neighbour_thresh and z_scale of the calls on a column
ColumnParams ==
    {<<<<1, 1, 3>>, th, 1>> : th \in {0, 1, 2, 3, 4, 5, 8, 9, 10, 16}}
    \cup {<<<<1, 1, 3>>, 1, 2>>, <<<<1, 2, 2>>, 1, 1>>}
ColumnCalls ==
    {[table |-> TableOf(f),
      args |-> [spot_yxz |-> SpotsAt(TableOf(f), gs).spot_yxz,
                spot_gene_no |-> SpotsAt(TableOf(f), gs).spot_gene_no,
                max_size |-> ms, pos_neighbour_thresh |-> th,
                isolation_dist |-> 1, z_scale |-> zs, mean_sign_thresh |-> <<1, 2>>]] :
        f \in [ColumnLocs -> LearnRows] \ {[c \in ColumnLocs |-> <<0, 0>>]},
        gs \in LearnSpotChoices, <<ms, th, zs>> \in ColumnParams}

\* no pixel and no spot
EmptyCalls ==
    {[table |-> [yxz |-> <<>>, coefs |-> <<>>],
      args |-> [spot_yxz |-> <<>>, spot_gene_no |-> <<>>,
                max_size |-> <<1, 1, 1>>, pos_neighbour_thresh |-> 1,
                isolation_dist |-> 1, z_scale |-> 1, mean_sign_thresh |-> <<1, 2>>]]}

LearnCalls == RingCalls \cup RowCalls \cup ColumnCalls \cup EmptyCalls

InitLearn ==
    /\ \E c \in LearnCalls :
        /\ pixel_yxz = c.table.yxz
        /\ pixel_coefs = c.table.coefs
        /\ sn_args = c.args
    /\ sn_pc = "select"
    /\ sn_sel = NoSelection
    /\ sn_avg = NoAverage
    /\ sn_out = NoTemplate
    /\ IdleStrel
    /\ IdleCount
    /\ IdleMask
    /\ IdleExtract
    /\ IdleCrop
    /\ IdleGetSpots
    /\ IdleOmp

learn_unchanged == <<table_vars, cc_vars, gs_args, gs_vars, omp_in, omp_vars, st_vars,
                     csn_vars, sn_args, mk_vars, ex_vars>>

\* lines 172-229: the filter, the size of the images and the loop over the
\* genes; raises if no spot is used
LearnSelect ==
    /\ sn_pc = "select"
    /\ \E sel \in {learn_select(pixel_yxz, pixel_coefs, sn_args)} :
        /\ sn_sel' = sel
        /\ IF Raised(sel.err)
           THEN /\ sn_pc' = "raised"
                /\ sn_out' = [err |-> sel.err, av_spot_image |-> None]
           ELSE /\ sn_pc' = "average"
                /\ sn_out' = sn_out
        /\ sn_args' = [sn_args EXCEPT
                            !.max_size = max_size_of_caller(sn_args.max_size, sel.max_size)]
    /\ UNCHANGED <<sn_avg, table_vars, cc_vars, gs_args, gs_vars, omp_in, omp_vars, st_vars,
                   csn_vars, mk_vars, ex_vars>>

\* lines 231-236: the isolated ones of the spots used and their average image
LearnAverage ==
    /\ sn_pc = "average"
    /\ LET used == SortedInts({i \in DOMAIN sn_sel.spots_used : sn_sel.spots_used[i]})
           images == [n \in DOMAIN used |-> sn_sel.spot_images[used[n]]]
           isolated == get_isolated_points([n \in DOMAIN used |-> sn_args.spot_yxz[used[n]]],
                                           sn_args.z_scale, sn_args.isolation_dist)
       IN sn_avg' = [isolated |-> isolated,
                     spot_indices_used |-> spot_indices_of(used, isolated),
                     av_spot_image_float |->
                        Some(get_average_spot_image(MaskSeq(images, isolated),
                                                    sn_sel.max_size))]
    /\ sn_pc' = "template"
    /\ UNCHANGED <<sn_sel, sn_out, learn_unchanged>>

\* lines 238-258: threshold, sign and the removal of the zero slabs
LearnTemplate ==
    /\ sn_pc = "template"
    /\ \E nan \in nan_as_int :
        sn_out' = [err |-> Ok,
                   av_spot_image |->
                      Some(crop_zero_slabs(threshold_sign(Val(sn_avg.av_spot_image_float),
                                                          sn_args.mean_sign_thresh, nan)))]
    /\ sn_pc' = "returned"
    /\ UNCHANGED <<sn_sel, sn_avg, learn_unchanged>>

NextLearn == LearnSelect \/ LearnAverage \/ LearnTemplate

SpecLearn == InitLearn /\ [][NextLearn]_vars

(***************************************************************************)
(* The operations of Strel called one at a time                            *)
(***************************************************************************)
\* the radii of an annulus in halves: 0 <= r0 < r_xy, r_z absent or given
AnnulusCalls ==
    {[op |-> "annulus", r0_x2 |-> a, r_xy_x2 |-> b, r_z_x2 |-> z] :
        <<a, b>> \in {ab \in (0 .. 6) \X (1 .. 7) : ab[1] < ab[2]},
        z \in {None} \cup {Some(c) : c \in {0, 1, 2, 3, 4, 7}}}
MaskCalls ==
    {[op |-> "disk", r |-> r, n |-> n] : r \in 0 .. MaxRadius, n \in {0, 4, 6, 8, 5}}
    \cup {[op |-> "periodic_line", p |-> p, v |-> v] :
            p \in 0 .. 2, v \in ((-2) .. 2) \X ((-2) .. 2)}
    \cup {[op |-> "disk_3d", r_xy |-> a, r_z |-> b] : a \in 0 .. 3, b \in 0 .. 3}
    \cup AnnulusCalls

InitMask ==
    /\ mk_call \in MaskCalls
    /\ mk_pc = "call"
    /\ mk_out = None
    /\ IdleExtract
    /\ IdleStrel
    /\ IdleCount
    /\ IdleLearn
    /\ IdleTable
    /\ IdleCrop
    /\ IdleGetSpots
    /\ IdleOmp

mask_unchanged == <<table_vars, cc_vars, gs_args, gs_vars, omp_in, omp_vars, st_vars,
                    csn_vars, sn_vars, mk_call, ex_vars>>

MaskDisk ==
    /\ mk_pc = "call"
    /\ mk_call.op = "disk"
    /\ \E out \in {disk(mk_call.r, mk_call.n)} :
        /\ mk_out' = out.nhood
        /\ mk_pc' = IF Raised(out.err) THEN "raised" ELSE "returned"
    /\ UNCHANGED mask_unchanged

MaskPeriodicLine ==
    /\ mk_pc = "call"
    /\ mk_call.op = "periodic_line"
    /\ mk_out' = Some(periodic_line(mk_call.p, mk_call.v))
    /\ mk_pc' = "returned"
    /\ UNCHANGED mask_unchanged

MaskDisk3d ==
    /\ mk_pc = "call"
    /\ mk_call.op = "disk_3d"
    /\ mk_out' = Some(disk_3d(mk_call.r_xy, mk_call.r_z))
    /\ mk_pc' = "returned"
    /\ UNCHANGED mask_unchanged

MaskAnnulus ==
    /\ mk_pc = "call"
    /\ mk_call.op = "annulus"
    /\ mk_out' = Some(annulus(mk_call.r0_x2, mk_call.r_xy_x2, mk_call.r_z_x2))
    /\ mk_pc' = "returned"
    /\ UNCHANGED mask_unchanged

NextMask == MaskDisk \/ MaskPeriodicLine \/ MaskDisk3d \/ MaskAnnulus

SpecMask == InitMask /\ [][NextMask]_vars

(***************************************************************************)
(* Any one call of cropped_coef_image, get_spots, count_spot_neighbours or *)
(* spot_neighbourhood                                                      *)
(***************************************************************************)
InitInputs == InitCrop \/ InitGetSpots \/ InitCount \/ InitLearn

NextInputs == NextCrop \/ NextGetSpots \/ NextCount \/ NextLearn

SpecInputs == InitInputs /\ [][NextInputs]_vars

(***************************************************************************)
(* extract_and_filter, lines 34-45: the radii of the filters and the       *)
(* kernels built from them. get_pixel_length and utils.errors.out_of_      *)
(* bounds are not part of the sources read: the first is an input, the     *)
(* second may or may not refuse a value equal to one of its bounds.        *)
(***************************************************************************)
\* whether out_of_bounds(var, value, min_allowed, max_allowed) raises; no
\* max_allowed stands for np.inf
out_of_bounds(value, min_allowed, max_allowed) ==
    IF value < min_allowed \/ (~IsNone(max_allowed) /\ value > Val(max_allowed))
    THEN {TRUE}
    ELSE IF value = min_allowed \/ max_allowed = Some(value) THEN {TRUE, FALSE}
    ELSE {FALSE}

\* hanning_diff(r1, r2), by the radii and the side of the kernel: the inner
\* window is added to the cells r2 - r1 .. r2 + r1 of the outer one, which
\* has 2 * r2 + 1 cells; with r1 = r2 the two windows cancel
hanning_diff(r1, r2) ==
    {IF bad[1] \/ bad[2]
     THEN [err |-> Raise("OutOfBoundsError", IF bad[1] THEN "r1" ELSE "r2", <<r1, r2>>),
           kernel |-> None]
     ELSE [err |-> Ok,
           kernel |-> Some([inner |-> r1, outer |-> r2, side |-> 2 * r2 + 1,
                            all_zero |-> (r1 = r2)])] :
        bad \in out_of_bounds(r1, 0, Some(r2)) \X out_of_bounds(r2, r1, None)}

\* lines 41 and 42: both fields are given config['r1']
debug_r2(conf) == conf.r1
debug_r_dapi(conf) == conf.r1

\* the default order of Strel.disk (line 34 of morphology.py)
disk_default_n == 4

Unset(values) == {None} \cup {Some(v) : v \in values}
ConfigRadii == [r1 : Unset(1 .. 2), r2 : Unset(1 .. 5), r_dapi : Unset(1 .. 3)]
AutoLengths == [r1 : 1 .. 2, r_dapi : 3 .. 4]

InitExtract ==
    /\ config \in ConfigRadii
    /\ auto_length \in AutoLengths
    /\ nbp_debug = NoRadii
    /\ filter_kernel = None
    /\ filter_kernel_dapi = None
    /\ ex_pc = "radii"
    /\ ex_err = Ok
    /\ IdleStrel
    /\ IdleCount
    /\ IdleLearn
    /\ IdleMask
    /\ IdleTable
    /\ IdleCrop
    /\ IdleGetSpots
    /\ IdleOmp

extract_unchanged == <<table_vars, cc_vars, gs_args, gs_vars, omp_in, omp_vars, st_vars,
                       csn_vars, sn_vars, mk_vars, ex_in>>

\* lines 34-42
ExtractRadii ==
    /\ ex_pc = "radii"
    /\ LET r1 == IF IsNone(config.r1) THEN Some(auto_length.r1) ELSE config.r1
           r2 == IF IsNone(config.r2) THEN Some(Val(r1) * 2) ELSE config.r2
           r_dapi == IF IsNone(config.r_dapi) THEN Some(auto_length.r_dapi)
                     ELSE config.r_dapi
           conf == [r1 |-> r1, r2 |-> r2, r_dapi |-> r_dapi]
       IN /\ config' = conf
          /\ nbp_debug' = [r1 |-> conf.r1, r2 |-> debug_r2(conf),
                           r_dapi |-> debug_r_dapi(conf)]
    /\ ex_pc' = "kernels"
    /\ UNCHANGED <<filter_kernel, filter_kernel_dapi, ex_err, extract_unchanged>>

\* lines 44-45
ExtractKernels ==
    /\ ex_pc = "kernels"
    /\ \E h \in hanning_diff(Val(nbp_debug.r1), Val(nbp_debug.r2)) :
        IF Raised(h.err)
        THEN /\ ex_pc' = "raised"
             /\ ex_err' = h.err
             /\ UNCHANGED <<filter_kernel, filter_kernel_dapi>>
        ELSE \E d \in {disk(Val(nbp_debug.r_dapi), disk_default_n)} :
                /\ filter_kernel' = h.kernel
                /\ filter_kernel_dapi' = d.nhood
                /\ ex_err' = d.err
                /\ ex_pc' = IF Raised(d.err) THEN "raised" ELSE "filtering"
    /\ UNCHANGED <<config, nbp_debug, extract_unchanged>>

NextExtract == ExtractRadii \/ ExtractKernels

SpecExtract == InitExtract /\ [][NextExtract]_vars

(***************************************************************************)
(* Properties of cropped_coef_image (under SpecCrop)                       *)
(***************************************************************************)
\* the rows of the table whose coefficient of the chosen gene is not zero
CropNonZero == {i \in DOMAIN pixel_yxz : pixel_coefs[i][cc_gene + 1] # 0}
CropMin == [j \in 1 .. 3 |-> Min({pixel_yxz[i][j] : i \in CropNonZero})]
CropMax == [j \in 1 .. 3 |-> Max({pixel_yxz[i][j] : i \in CropNonZero})]
\* the extent of the returned array along axis j; an axis it does not have
\* has extent 1
CropExtent(j) ==
    IF j <= Len(cc_out.coef_image.shape) THEN cc_out.coef_image.shape[j] ELSE 1
\* the cell of the returned array that holds native location yxz
CropCell(yxz) == Take(Sub(yxz, cc_out.coord_shift), Len(cc_out.coef_image.shape))

\* C10: for a table of distinct locations and a column with a non-zero entry,
\* cropped_coef_image returns as coord_shift the componentwise minimum of the
\* non-zero pixels' locations, an array whose extent along every axis is
\* max - min + 1 of those locations, holding at (location - coord_shift) the
\* coefficient of every non-zero pixel and 0 in every other cell.
C10_CropRoundTrip ==
    (cc_pc = "done" /\ CropNonZero # {}) =>
        /\ cc_out.err = NoError
        /\ cc_out.coord_shift = CropMin
        /\ \A j \in 1 .. 3 : CropExtent(j) = CropMax[j] - CropMin[j] + 1
        /\ \A i \in CropNonZero :
                /\ CropCell(pixel_yxz[i]) \in Cells(cc_out.coef_image.shape)
                /\ cc_out.coef_image.val[CropCell(pixel_yxz[i])]
                        = pixel_coefs[i][cc_gene + 1]
        /\ \A c \in Cells(cc_out.coef_image.shape) :
                (\A i \in CropNonZero : CropCell(pixel_yxz[i]) # c)
                    => cc_out.coef_image.val[c] = 0

\* a crop of two non-zero pixels away from the origin, leaving a zero cell
C10_Witness ==
    /\ cc_pc = "done"
    /\ Cardinality(CropNonZero) = 2
    /\ cc_out.err = NoError
    /\ cc_out.coord_shift # <<0, 0, 0>>
    /\ \E c \in Cells(cc_out.coef_image.shape) : cc_out.coef_image.val[c] = 0

(***************************************************************************)
(* Properties of get_spots (under SpecGetSpots)                            *)
(***************************************************************************)
\* the number of cells of the template given to get_spots that equal v
TemplateCells(v) ==
    Cardinality({k \in Cells(Val(spot_shape).shape) : Val(spot_shape).val[k] = v})
\* the template has a +1 cell and a -1 cell
TemplateSigned == TemplateCells(1) > 0 /\ TemplateCells(-1) > 0
\* get_spots raised an exception of the given class before its loop over the
\* genes started: no gene was processed and nothing is returned
FailedEarly(type) ==
    /\ gs_pc = "raised"
    /\ gs_err.type = type
    /\ gs_g = 0
    /\ spot_info = <<>>
    /\ gs_ret = NoReturn
\* the rows get_spots returned: <<yxz, gene, n_pos, n_neg>> with a template,
\* <<yxz, gene>> without
ReturnedRow(k) ==
    IF IsNone(spot_shape)
    THEN <<gs_ret.spot_yxz[k], gs_ret.spot_gene_no[k]>>
    ELSE <<gs_ret.spot_yxz[k], gs_ret.spot_gene_no[k], gs_ret.n_pos_neighbours[k],
           gs_ret.n_neg_neighbours[k]>>
ReturnedRows == {ReturnedRow(k) : k \in DOMAIN gs_ret.spot_yxz}

\* C4: get_spots given a template fails before it processes any gene and
\* returns no spots when the template has no +1 cell (ValueError, the
\* invalid-argument error), when it has no -1 cell (ValueError), and when
\* pos_neighbour_thresh is not below the number of +1 cells of a template that
\* has both (OutOfBoundsError).
C4_TemplateChecks ==
    (gs_pc # "check" /\ ~IsNone(spot_shape)) =>
        /\ TemplateCells(1) = 0 => FailedEarly("ValueError")
        /\ TemplateCells(-1) = 0 => FailedEarly("ValueError")
        /\ (TemplateSigned /\ pos_neighbour_thresh >= TemplateCells(1))
                => FailedEarly("OutOfBoundsError")

\* a template with both signs rejected for a threshold above its +1 cells
C4_Witness ==
    /\ ~IsNone(spot_shape)
    /\ TemplateSigned
    /\ pos_neighbour_thresh > TemplateCells(1)
    /\ FailedEarly("OutOfBoundsError")

\* C5 (as amended): get_spots given a template with both signs and a
\* pos_neighbour_thresh equal to the number of +1 cells of the template raises
\* OutOfBoundsError before it processes any gene; it returns no spot set.
C5_ThreshEqualRejected ==
    (gs_pc # "check" /\ ~IsNone(spot_shape)) =>
        ((TemplateSigned /\ pos_neighbour_thresh = TemplateCells(1))
            => (FailedEarly("OutOfBoundsError") /\ gs_pc # "returned"))

\* a call with the threshold at the number of +1 cells, after the check
C5_Witness ==
    /\ ~IsNone(spot_shape)
    /\ TemplateSigned
    /\ pos_neighbour_thresh = TemplateCells(1)
    /\ gs_pc = "raised"
    /\ gs_err.what = "pos_neighbour_thresh"

\* C5 as stated: with pos_neighbour_thresh equal to the number of +1 cells the
\* call goes through and returns an empty spot set.
C5_ReturnsEmpty ==
    (gs_pc \in {"raised", "returned"} /\ ~IsNone(spot_shape)) =>
        ((TemplateSigned /\ pos_neighbour_thresh = TemplateCells(1))
            => (gs_pc = "returned" /\ gs_ret.spot_yxz = <<>>))


\* gene g's cropped image, and its candidate spots in the frame of that image:
\* the local maxima, or the supplied spots of the gene
GeneCrop(g) == cropped_coef_image(pixel_yxz, Column(pixel_coefs, g))
GeneCandidates(g) ==
    IF IsNone(spot_yxzg)
    THEN detect_spots(GeneCrop(g).coef_image, coef_thresh, RadiusXY, RadiusZ)
    ELSE spots_of_gene(Val(spot_yxzg), g, GeneCrop(g).coord_shift)
\* the neighbour counts of gene g's candidates under the template
GeneCounts(g) ==
    count_spot_neighbours(GeneCrop(g).coef_image, GeneCandidates(g),
                          pos_filter_of(Val(spot_shape)),
                          Some(neg_filter_of(Val(spot_shape))))
\* a location of the cropped frame (2 or 3 coordinates) in the native frame
NativeOf(c, shift) == [j \in 1 .. 3 |-> (IF j <= Len(c) THEN c[j] ELSE 0) + shift[j]]
\* the candidates whose positive count exceeds the threshold, each with its gene
\* and its own two counts
PassingRows ==
    UNION {LET cand == GeneCandidates(g)
               shift == GeneCrop(g).coord_shift
               n == GeneCounts(g)
           IN {<<NativeOf(cand[i], shift), g, n.n_pos[i], n.n_neg[i]>> :
                 i \in {i \in DOMAIN cand : n.n_pos[i] > pos_neighbour_thresh}} :
           g \in Genes}

\* C6: when get_spots returns from a call with a valid template, its output
\* holds, for every gene, exactly the candidates whose positive-neighbour
\* count is strictly greater than pos_neighbour_thresh, once each, and every
\* output row carries the positive and the negative count of its own spot.
C6_KeptIffCountAbove ==
    (gs_pc = "returned" /\ ~IsNone(spot_shape)) =>
        /\ ReturnedRows = PassingRows
        /\ Len(gs_ret.spot_yxz) = Cardinality(PassingRows)

\* a call that returned a spot of a gene and dropped an earlier candidate of
\* the same gene with another count
C6_Witness ==
    /\ gs_pc = "returned"
    /\ ~IsNone(spot_shape)
    /\ \E g \in Genes : \E i, j \in DOMAIN GeneCandidates(g) :
            /\ i < j
            /\ GeneCounts(g).n_pos[i] <= pos_neighbour_thresh
            /\ GeneCounts(g).n_pos[j] > pos_neighbour_thresh

\* pixel i is a local maximum of gene g above coef_thresh: no pixel under the
\* structuring element centred on it has a greater coefficient of g
Coef(i, g) == pixel_coefs[i][g + 1]
UnderElement(i, j) ==
    Sub(pixel_yxz[j], pixel_yxz[i]) \in StrelOffsets(3, RadiusXY, RadiusZ)
IsLocalMax(i, g) ==
    /\ Coef(i, g) > coef_thresh
    /\ \A j \in DOMAIN pixel_yxz : UnderElement(i, j) => Coef(j, g) <= Coef(i, g)

\* C7: when get_spots returns from a call without a template (and without
\* supplied spots), every local maximum above coef_thresh of every gene is in
\* the output exactly once with that gene; equal neighbouring maxima are all
\* there.
C7_NoTemplateKeepsAll ==
    (gs_pc = "returned" /\ IsNone(spot_shape) /\ IsNone(spot_yxzg)) =>
        \A g \in Genes : \A i \in DOMAIN pixel_yxz :
            IsLocalMax(i, g) =>
                Cardinality({k \in DOMAIN gs_ret.spot_yxz :
                                /\ gs_ret.spot_yxz[k] = pixel_yxz[i]
                                /\ gs_ret.spot_gene_no[k] = g}) = 1

\* a call without template that returned two equal neighbouring maxima
C7_Witness ==
    /\ gs_pc = "returned"
    /\ IsNone(spot_shape)
    /\ IsNone(spot_yxzg)
    /\ \E g \in Genes : \E i, j \in DOMAIN pixel_yxz :
            /\ i # j
            /\ UnderElement(i, j)
            /\ Coef(i, g) = Coef(j, g)
            /\ IsLocalMax(i, g)
            /\ IsLocalMax(j, g)
            /\ <<pixel_yxz[i], g>> \in ReturnedRows
            /\ <<pixel_yxz[j], g>> \in ReturnedRows

\* the supplied spots, and those whose coefficient is not above coef_thresh
Supplied == Val(spot_yxzg)
SuppliedCoef(i) ==
    pixel_coefs[CHOOSE p \in DOMAIN pixel_yxz : pixel_yxz[p] = Take(Supplied[i], 3)]
               [Supplied[i][4] + 1]
Violating == {i \in DOMAIN Supplied : SuppliedCoef(i) <= coef_thresh}
EveryGeneNonZero == \A g \in Genes : \E i \in DOMAIN pixel_yxz : Coef(i, g) # 0

\* C8 as stated, for a call without template: the supplied spots (all of them
\* above coef_thresh, every gene having a non-zero coefficient) come back, each
\* at its own coordinates with its gene, whether a gene's cropped image is 3-D
\* or 2-D.
C8_SuppliedReturned ==
    (/\ gs_pc \in {"raised", "returned"}
     /\ ~IsNone(spot_yxzg)
     /\ IsNone(spot_shape)
     /\ Supplied # <<>>
     /\ Violating = {}
     /\ EveryGeneNonZero) =>
        /\ gs_pc = "returned"
        /\ ReturnedRows = {<<Take(Supplied[i], 3), Supplied[i][4]>> : i \in DOMAIN Supplied}
        /\ Len(gs_ret.spot_yxz) = Len(Supplied)

\* the check of the supplied spots raised
CheckFailed ==
    /\ gs_pc = "raised"
    /\ gs_g = 0
    /\ gs_err.what \in {"spot_yxzg", "spot_coefs_check", "pixel_yxz"}

\* C9 as stated, for at most 500 supplied spots: the check of the supplied
\* spots fails if and only if one of them has a coefficient that is not above
\* coef_thresh.
C9_FailsIffViolation ==
    (gs_pc # "check" /\ ~IsNone(spot_yxzg) /\ Len(Supplied) <= MaxCheck) =>
        (CheckFailed <=> Violating # {})

(***************************************************************************)
(* Properties of call_spots_omp (under Spec)                               *)
(***************************************************************************)
AllTiles == {t - 1 : t \in DOMAIN tile_origin}
\* the tile, gene and global position of detection k (row k of omp_spot_info)
DetTile(k) == omp_spot_info[k][7]
DetGene(k) == omp_spot_info[k][4]
DetGlobal(k) ==
    [j \in 1 .. 3 |-> omp_spot_info[k][j] + tile_origin[DetTile(k) + 1][j]]
\* four times the squared distance in the y, x plane from detection k to the
\* centre of tile t, the centre being tile_origin + (tile_sz - 1) / 2
CentreDist(k, t) ==
    LET dy == 2 * DetGlobal(k)[1] - 2 * tile_origin[t + 1][1] - (TileSz[1] - 1)
        dx == 2 * DetGlobal(k)[2] - 2 * tile_origin[t + 1][2] - (TileSz[2] - 1)
    IN dy * dy + dx * dx
\* the spots written to the notebook page
KeptRows ==
    {<<nbp.local_yxz[k], nbp.gene_no[k], nbp.n_neighbours_pos[k],
       nbp.n_neighbours_neg[k], nbp.tile[k]>> : k \in DOMAIN nbp.local_yxz}
IsKept(k) ==
    <<Take(omp_spot_info[k], 3), omp_spot_info[k][4], omp_spot_info[k][5],
      omp_spot_info[k][6], omp_spot_info[k][7]>> \in KeptRows

\* C1: when call_spots_omp ends, a detected spot is kept if and only if the
\* tile whose centre kneighbors found nearest to its global (y, x) is the tile
\* that detected it, and that tile's centre is indeed at the least distance in
\* the plane; so a spot at its own tile's centre is kept and a spot strictly
\* closer in the plane to another tile's centre is discarded.
C1_KeptIffNearestIsOwn ==
    (omp_pc = "done") =>
        \A k \in DOMAIN omp_spot_info :
            /\ \A u \in AllTiles : CentreDist(k, all_nearest_tile[k]) <= CentreDist(k, u)
            /\ IsKept(k) <=> (all_nearest_tile[k] = DetTile(k))
            /\ CentreDist(k, DetTile(k)) = 0 => IsKept(k)
            /\ (\E u \in AllTiles : CentreDist(k, u) < CentreDist(k, DetTile(k)))
                    => ~IsKept(k)

\* a run that kept a spot at its tile's centre and discarded a spot of the
\* other tile that lies strictly closer to the first tile's centre
C1_Witness ==
    /\ omp_pc = "done"
    /\ \E k, l \in DOMAIN omp_spot_info :
            /\ DetTile(k) # DetTile(l)
            /\ CentreDist(k, DetTile(k)) = 0
            /\ IsKept(k)
            /\ CentreDist(l, DetTile(k)) < CentreDist(l, DetTile(l))
            /\ ~IsKept(l)

\* the global position and gene of kept spot k
KeptGlobal(k) ==
    [j \in 1 .. 3 |-> nbp.local_yxz[k][j] + tile_origin[nbp.tile[k] + 1][j]]
\* detections a and b are one spot seen by two tiles, and the centre of b's
\* tile is strictly the nearest of all
SameSpotNearerSecond(a, b) ==
    /\ DetTile(a) # DetTile(b)
    /\ DetGlobal(a) = DetGlobal(b)
    /\ DetGene(a) = DetGene(b)
    /\ \A u \in AllTiles \ {DetTile(b)} : CentreDist(b, DetTile(b)) < CentreDist(b, u)
SurvivorsOf(b) ==
    {k \in DOMAIN nbp.local_yxz :
        KeptGlobal(k) = DetGlobal(b) /\ nbp.gene_no[k] = DetGene(b)}

\* C2: when call_spots_omp ends, no two kept spots have the same global yxz
\* and the same gene; and of a spot detected by two tiles at the same global
\* position with the same gene, lying closer to the second tile's centre,
\* exactly one detection is kept and it carries the second tile.
C2_SurvivorsUnique ==
    (omp_pc = "done") =>
        /\ \A k, l \in DOMAIN nbp.local_yxz :
                (k # l) => <<KeptGlobal(k), nbp.gene_no[k]>> # <<KeptGlobal(l), nbp.gene_no[l]>>
        /\ \A a, b \in DOMAIN omp_spot_info :
                SameSpotNearerSecond(a, b) =>
                    /\ Cardinality(SurvivorsOf(b)) = 1
                    /\ \A k \in SurvivorsOf(b) : nbp.tile[k] = DetTile(b)

\* a run in which both tiles detected one spot of the overlap
C2_Witness ==
    /\ omp_pc = "done"
    /\ \E a, b \in DOMAIN omp_spot_info :
            /\ SameSpotNearerSecond(a, b)
            /\ Cardinality(SurvivorsOf(b)) = 1

\* C3: in a run of call_spots_omp spot_neighbourhood is called at most once,
\* however many tiles there are; and if the template file exists when the
\* run starts, the template is loaded from it and spot_neighbourhood is never
\* called.
C3_LearnAtMostOnce ==
    /\ [](n_learn <= 1)
    /\ (~IsNone(omp_spot_shape_file)) =>
            [](/\ n_learn = 0
               /\ (omp_pc # "start" /\ ~IsNone(omp_spot_shape_file)) =>
                    omp_spot_shape = Some(load_shape(Val(omp_spot_shape_file))))

\* a run over two tiles that learned the template on the first of them
C3_Witness ==
    /\ omp_pc = "done"
    /\ tile_i = 2
    /\ n_learn = 1
    /\ Len(omp_spot_info) > 0

(***************************************************************************)
(* Properties of Strel.disk (under SpecStrel)                              *)
(***************************************************************************)
\* the mask returned and the squared distance of a cell from the centre of a
\* mask of side 2 r + 1
DiskMask == Val(st_out.nhood)
CentreDist2(k, r) == (k[1] - r) * (k[1] - r) + (k[2] - r) * (k[2] - r)

\* C19: for every radius r >= 0, Strel.disk(r, 0) is a (2r+1) x (2r+1) mask of
\* zeros and ones whose ones are exactly the cells within Euclidean distance r
\* of the centre cell, and the mask is unchanged by the point reflection about
\* its centre.
C19_DiskExact ==
    (st_pc = "returned" /\ st_n = 0) =>
        /\ DiskMask.shape = <<2 * st_r + 1, 2 * st_r + 1>>
        /\ \A k \in Cells(DiskMask.shape) :
            /\ DiskMask.val[k] \in {0, 1}
            /\ DiskMask.val[k] = 1 <=> CentreDist2(k, st_r) <= st_r * st_r
            /\ DiskMask.val[k] = DiskMask.val[<<2 * st_r - k[1], 2 * st_r - k[2]>>]

\* a disk of radius 3 asked for without decomposition: its corners are zero
\* and the ends of its axes are one
C19_Witness ==
    /\ st_pc = "returned"
    /\ st_n = 0
    /\ st_r = 3
    /\ DiskMask.val[<<0, 0>>] = 0
    /\ DiskMask.val[<<0, 3>>] = 1

\* C20 as stated: Strel.disk raises ValueError and returns no mask for every
\* order other than 0, 4, 6 and 8, whatever the radius.
C20_InvalidOrderFails ==
    (st_pc # "call" /\ st_n \notin {0, 4, 6, 8}) =>
        /\ st_pc = "raised"
        /\ st_out.err.type = "ValueError"
        /\ IsNone(st_out.nhood)

(***************************************************************************)
(* Properties of count_spot_neighbours (under SpecCount)                   *)
(***************************************************************************)
\* the image and the positive mask of the call; an array of two axes has
\* extent 1 along z and a location of two columns lies at z = 0
CsnImage == Val(csn_image)
CsnMask == Val(csn_pos_filter)
Extent3(a, j) == IF j <= Len(a.shape) THEN a.shape[j] ELSE 1
Coord3(row, j) == IF j <= Len(row) THEN row[j] ELSE 0
\* the cell of an axis of length n that is laid on the query location
MaskCentre(n) == (n - 1) \div 2
\* every cell of the mask laid on the location falls on a pixel of the image
FullyInside(row) ==
    \A j \in 1 .. 3 : \A t \in 0 .. (Extent3(CsnMask, j) - 1) :
        Coord3(row, j) + t - MaskCentre(Extent3(CsnMask, j))
            \in 0 .. (Extent3(CsnImage, j) - 1)
AllOnes(a) == \A k \in Cells(a.shape) : a.val[k] = 1
AllPositive(a) == \A k \in Cells(a.shape) : a.val[k] > 0

\* C17: count_spot_neighbours with a mask of ones over an image whose pixels
\* are all strictly positive returns, at every query location where the whole
\* mask lies inside the image, exactly the number of cells of the mask.
C17_FullCountInside ==
    (csn_pc = "returned" /\ AllOnes(CsnMask) /\ AllPositive(CsnImage)) =>
        \A i \in DOMAIN csn_spot_yxz :
            FullyInside(csn_spot_yxz[i]) =>
                csn_out.n_pos[i] = Cardinality(Cells(CsnMask.shape))

\* a mask of three ones counted in the middle of a positive row of three
\* pixels
C17_Witness ==
    /\ csn_pc = "returned"
    /\ AllOnes(CsnMask)
    /\ AllPositive(CsnImage)
    /\ CsnMask.shape = <<1, 3>>
    /\ \E i \in DOMAIN csn_spot_yxz :
        /\ FullyInside(csn_spot_yxz[i])
        /\ csn_out.n_pos[i] = 3

\* the masks hold zeros and ones only and have the rank of the image
MasksValid ==
    /\ ~bad_filter(CsnMask)
    /\ Len(CsnMask.shape) = Len(CsnImage.shape)
    /\ IsNone(csn_neg_filter)
\* the locations with a negative coordinate or a coordinate above the extent
\* of the image minus 1
Offending ==
    {i \in DOMAIN csn_spot_yxz :
        \E j \in DOMAIN csn_spot_yxz[i] :
            \/ csn_spot_yxz[i][j] < 0
            \/ csn_spot_yxz[i][j] > Extent3(CsnImage, j) - 1}

\* C18 as stated: when some query location has a negative coordinate or a
\* coordinate above the extent of the image minus 1 (a location of three
\* columns with z other than 0 on an image of two axes included),
\* count_spot_neighbours raises OutOfBoundsError naming the first such location
\* and the bounds 0 and shape - 1.
C18_OutOfBoundsNamed ==
    (csn_pc # "call" /\ MasksValid /\ Offending # {}) =>
        /\ csn_pc = "raised"
        /\ csn_out.err.type = "OutOfBoundsError"
        /\ LET first == csn_spot_yxz[Min(Offending)]
               ndim == Len(CsnImage.shape)
           IN /\ csn_out.err.args[1] \in {first, Take(first, Min({ndim, Len(first)}))}
              /\ csn_out.err.args[2] = [j \in 1 .. ndim |-> 0]
              /\ csn_out.err.args[3] = [j \in 1 .. ndim |-> CsnImage.shape[j] - 1]

(***************************************************************************)
(* Properties of spot_neighbourhood (under SpecLearn)                      *)
(***************************************************************************)
\* the call has passed the stage that builds the filter and chooses the spots
LearnSelected == sn_pc \in {"average", "template", "returned", "raised"}
LearnThresh == sn_args.pos_neighbour_thresh
\* number of z-planes of the data
LearnNz == Max({pixel_yxz[i][3] : i \in DOMAIN pixel_yxz}) + 1
LearnFilter == Val(sn_sel.pos_filter)
\* the middle plane of the filter and the cells off it that are set
CentralPlane == {k \in Cells(LearnFilter.shape) : k[3] = (LearnFilter.shape[3] - 1) \div 2}
OffPlaneTaps ==
    {k \in Cells(LearnFilter.shape) \ CentralPlane : LearnFilter.val[k] # 0}
FilterOnes == {k \in Cells(LearnFilter.shape) : LearnFilter.val[k] = 1}
\* the smallest odd s with s * s >= th
SmallestOddSide(th) ==
    Min({s \in 1 .. (th + 2) : s % 2 = 1 /\ s * s >= th})
\* the smallest perfect square that is >= th
SmallestSquare(th) == Min({k * k : k \in {j \in 1 .. th : j * j >= th}})

\* C12 (amended): for every pos_neighbour_thresh >= 1 the middle z-plane of
\* the filter is a full square whose side is the smallest odd number s with
\* s * s >= pos_neighbour_thresh; the filter has one z-plane when the data has
\* at most 2 z-planes, and otherwise 3 z-planes with exactly two more cells
\* set, at the yx centre of the plane above and of the plane below.
C12_FilterGeometry ==
    (LearnSelected /\ pixel_yxz # <<>> /\ LearnThresh >= 1) =>
        LET s == SmallestOddSide(LearnThresh)
            mid == (s - 1) \div 2
        IN /\ LearnFilter.shape[1] = s /\ LearnFilter.shape[2] = s
           /\ \A k \in CentralPlane : LearnFilter.val[k] = 1
           /\ Cardinality(CentralPlane) = s * s
           /\ \A k \in Cells(LearnFilter.shape) : LearnFilter.val[k] \in {0, 1}
           /\ IF LearnNz <= 2
              THEN LearnFilter.shape[3] = 1 /\ OffPlaneTaps = {}
              ELSE /\ LearnFilter.shape[3] = 3
                   /\ OffPlaneTaps = {<<mid, mid, 0>>, <<mid, mid, 2>>}

\* a filter of three planes whose side was raised from 2 to 3
C12_Witness ==
    /\ LearnSelected
    /\ pixel_yxz # <<>>
    /\ LearnThresh = 2
    /\ LearnNz >= 3
    /\ LearnFilter.shape = <<3, 3, 3>>
    /\ Cardinality(FilterOnes) = 11

\* C12 as stated: the middle plane has as many cells as the smallest perfect
\* square that is >= pos_neighbour_thresh
C12_CentralPlaneSmallestSquare ==
    (LearnSelected /\ pixel_yxz # <<>> /\ LearnThresh >= 1) =>
        Cardinality({k \in CentralPlane : LearnFilter.val[k] = 1})
            = SmallestSquare(LearnThresh)

\* the coefficient of gene g at location c of the data, 0 where the table has
\* no pixel
CoefAt(c, g) ==
    IF \E n \in DOMAIN pixel_yxz : pixel_yxz[n] = c
    THEN pixel_coefs[CHOOSE n \in DOMAIN pixel_yxz : pixel_yxz[n] = c][g + 1]
    ELSE 0
\* the cells of the filter, laid centred on spot i, that fall on a positive
\* coefficient of the spot's gene
PosNeighbours(i) ==
    {k \in FilterOnes :
        CoefAt([j \in 1 .. 3 |-> sn_args.spot_yxz[i][j] + k[j]
                                    - (LearnFilter.shape[j] \div 2)],
               sn_args.spot_gene_no[i]) > 0}
FullAgreement(i) == Cardinality(PosNeighbours(i)) = Cardinality(FilterOnes)
\* the loop over the genes ran to its end
LearnLoopDone ==
    /\ LearnSelected
    /\ pixel_yxz # <<>>
    /\ sn_sel.err \in {Ok, Raise("ValueError", "No spots found", <<>>)}
\* the call on the 3 x 3 plane with the threshold 8
RingCall == sn_args.spot_yxz = <<RingCentre>> /\ LearnThresh = 8
RingPositive == {c \in RingLocs \ {RingCentre} : CoefAt(c, 0) > 0}

\* C11: a spot is used for learning iff the number of positive coefficients
\* of its gene under the filter equals the number of cells of the filter; with
\* the threshold 8 the spot in the middle of a 3 x 3 plane is used when all 8
\* pixels around it are positive and is dropped when any of them is zero.
C11_UsedIffFullAgreement ==
    LearnLoopDone =>
        /\ \A i \in DOMAIN sn_args.spot_yxz : sn_sel.spots_used[i] <=> FullAgreement(i)
        /\ RingCall => (sn_sel.spots_used[1] <=> Cardinality(RingPositive) = 8)

\* one pixel of the ring is zero and the spot is dropped
C11_Witness ==
    /\ LearnLoopDone
    /\ RingCall
    /\ Cardinality(RingPositive) = 7
    /\ ~sn_sel.spots_used[1]
    /\ sn_pc = "raised"

\* no spot of the list passes the test of full agreement
NoSurvivor == \A i \in DOMAIN sn_args.spot_yxz : ~FullAgreement(i)
NoSpotsFound == Raise("ValueError", "No spots found", <<>>)

\* C13: when no spot of any gene passes the test of full agreement (also when
\* the list of spots is empty) the call ends with the exception "No spots
\* found to make average spot image from" and returns no template.
C13_NoSurvivorRaises ==
    (LearnSelected /\ pixel_yxz # <<>> /\ NoSurvivor) =>
        /\ sn_pc = "raised"
        /\ sn_out.err = NoSpotsFound
        /\ IsNone(sn_out.av_spot_image)
        /\ sn_avg = NoAverage

\* spots were given, none survived and the call raised
C13_Witness ==
    /\ LearnSelected
    /\ pixel_yxz # <<>>
    /\ Len(sn_args.spot_yxz) >= 2
    /\ NoSurvivor
    /\ sn_pc = "raised"
    /\ sn_out.err = NoSpotsFound

\* the call returned a template made from at least one isolated spot
LearnReturned ==
    /\ sn_pc = "returned"
    /\ \E n \in DOMAIN sn_avg.isolated : sn_avg.isolated[n]
\* the template after lines 239-240, before any slab is removed
Thresholded ==
    threshold_sign(Val(sn_avg.av_spot_image_float), sn_args.mean_sign_thresh, 0)
Template == Val(sn_out.av_spot_image)
\* an all-zero slab of the thresholded template between two that are not
InteriorZeroSlab(j) ==
    \E n \in outer_crop_slabs(Thresholded, j) : n \notin nonzero_slabs(Thresholded, j)

\* C14: the template returned is the thresholded template without its outer
\* all-zero slabs only: along every axis it extends from the first to the last
\* slab that is not all zero, all-zero slabs in between included, and its cells
\* keep their relative positions.
C14_OnlyOuterSlabsRemoved ==
    LearnReturned =>
        /\ \A j \in 1 .. 3 :
            Template.shape[j] = Cardinality(outer_crop_slabs(Thresholded, j))
        /\ \A k \in Cells(Template.shape) :
            Template.val[k] =
                Thresholded.val[[j \in 1 .. 3 |->
                                    k[j] + Min(outer_crop_slabs(Thresholded, j))]]

\* spot n of the list lies within isolation_dist of spot i
Near(i, n) ==
    scaled_dist2(sn_args.spot_yxz[i], sn_args.spot_yxz[n], sn_args.z_scale)
        <= sn_args.isolation_dist * sn_args.isolation_dist
\* the indices returned, numbered from 1 as the spots of the list are here
IndicesUsed == Range(sn_avg.spot_indices_used)

C15_OddAndTernary ==
    sn_pc = "returned" =>
        /\ \A j \in 1 .. 3 : Template.shape[j] % 2 = 1
        /\ \A k \in Cells(Template.shape) : Template.val[k] \in {-1, 0, 1}

(***************************************************************************)
(* Properties of the decomposed disk (under SpecStrel)                     *)
(***************************************************************************)
\* the offset <<dy, dx>> from the centre lies in the exact disk of radius r
InDisk(d, r) == d[1] * d[1] + d[2] * d[2] <= r * r
\* a point of the exact disk on its boundary: one of its four neighbours is
\* outside the disk
OnDiskBoundary(d, r) ==
    \E e \in {<<1, 0>>, <<-1, 0>>, <<0, 1>>, <<0, -1>>} : ~InDisk(Add(d, e), r)
\* the mask returned has a one at the offset d from its centre cell
MaskHas(d) ==
    LET k == <<d[1] + (DiskMask.shape[1] - 1) \div 2, d[2] + (DiskMask.shape[2] - 1) \div 2>>
    IN k \in Cells(DiskMask.shape) /\ DiskMask.val[k] = 1
\* the ones of a line of the mask: one run without gap that holds position mid
OneRun(line, mid) ==
    /\ mid \in line
    /\ \A a \in line : \A b \in line : \A c \in a .. b : c \in line
DiskDecomposed == st_pc = "returned" /\ st_r >= 3 /\ st_n \in {4, 6, 8}

Mask == Val(mk_out)
\* the centre cell of the mask and the offset of a cell from it
MaskMid == [j \in DOMAIN Mask.shape |-> (Mask.shape[j] - 1) \div 2]
MaskOffset(k) == Sub(k, MaskMid)
\* four times the squared distance of an offset from the origin
Dist2x4(d) == 4 * SumOver(DOMAIN d, [j \in DOMAIN d |-> d[j] * d[j]])
AnnulusReturned == mk_pc = "returned" /\ mk_call.op = "annulus"
\* the distance of the offset d is at most r0, or in (r0, r_xy]
WithinInner(d) == Dist2x4(d) <= mk_call.r0_x2 * mk_call.r0_x2
InAnnulus(d) ==
    /\ Dist2x4(d) > mk_call.r0_x2 * mk_call.r0_x2
    /\ Dist2x4(d) <= mk_call.r_xy_x2 * mk_call.r_xy_x2
\* the integer points around the origin, as many axes as the mask has, wide
\* enough to hold every point within r_xy
AnnulusPoints ==
    LET R == floor_x2(mk_call.r_xy_x2) + 1
    IN IF Len(Mask.shape) = 2 THEN ((-R) .. R) \X ((-R) .. R)
       ELSE ((-R) .. R) \X ((-R) .. R) \X ((-R) .. R)
\* the mask has a cell at offset d and it holds v
MaskValue(d, v) == Add(d, MaskMid) \in Cells(Mask.shape) /\ Mask.val[Add(d, MaskMid)] = v

\* C22 (amended): for 0 <= r0 < r1 the mask of Strel.annulus(r0, r1) is 0 at
\* every cell within distance r0 of the centre and 1 at every cell whose
\* distance is in (r0, r1]; in 2-D every integer point with distance in
\* (r0, r1] is a cell of the mask. With a z radius the rule applies to the 3-D
\* distance, z not rescaled, for the cells of the mask, which reach
\* floor(r_z) planes above and below the centre: an integer point with
\* distance in (r0, r1] further away in z is not part of the mask.
C22_AnnulusCells ==
    AnnulusReturned =>
        /\ \A k \in Cells(Mask.shape) :
            /\ WithinInner(MaskOffset(k)) => Mask.val[k] = 0
            /\ InAnnulus(MaskOffset(k)) => Mask.val[k] = 1
        /\ \A d \in AnnulusPoints :
            (InAnnulus(d) /\ (Len(Mask.shape) = 3 => Abs(d[3]) <= MaskMid[3]))
                => MaskValue(d, 1)
        /\ Len(Mask.shape) = 3 => MaskMid[3] = floor_x2(Val(mk_call.r_z_x2))

\* an annulus of radii 1 and 2 with the z radius 1: zero at the centre and at
\* distance 1, one at distance 2 in the plane, no cell two planes up
C22_Witness ==
    /\ AnnulusReturned
    /\ mk_call.r0_x2 = 2 /\ mk_call.r_xy_x2 = 4 /\ mk_call.r_z_x2 = Some(2)
    /\ Mask.shape = <<5, 5, 3>>
    /\ MaskValue(<<0, 0, 0>>, 0)
    /\ MaskValue(<<0, 0, 1>>, 0)
    /\ MaskValue(<<0, 2, 0>>, 1)
    /\ MaskValue(<<1, 1, 1>>, 1)

\* C22 as stated: the mask is 0 at every cell within distance r0 and 1 at
\* every integer point whose distance, 3-D when a z radius is given, is in
\* (r0, r1].
C22_AnnulusAllPoints ==
    AnnulusReturned =>
        /\ \A k \in Cells(Mask.shape) : WithinInner(MaskOffset(k)) => Mask.val[k] = 0
        /\ \A d \in AnnulusPoints : InAnnulus(d) => MaskValue(d, 1)

\* the cell opposite to k through the centre cell
Reflected(k) == [j \in DOMAIN k |-> Mask.shape[j] - 1 - k[j]]

\* C23: every mask returned by Strel.disk (orders 0, 4, 6, 8, radius >= 0),
\* Strel.periodic_line (p >= 0, integer offsets), Strel.disk_3d and
\* Strel.annulus has an odd number of cells along every axis and is unchanged
\* by the point reflection through its centre cell.
C23_OddAndSymmetric ==
    mk_pc = "returned" =>
        /\ \A j \in DOMAIN Mask.shape : Mask.shape[j] % 2 = 1
        /\ \A k \in Cells(Mask.shape) :
            /\ Reflected(k) \in Cells(Mask.shape)
            /\ Mask.val[k] = Mask.val[Reflected(k)]
            /\ Mask.val[k] \in {0, 1}

\* the line of the offsets i * <<1, -2>>, i in -2 .. 2: ones at two opposite
\* corners of a 5 x 9 mask, zeros at the two others
C23_Witness ==
    /\ mk_pc = "returned"
    /\ mk_call = [op |-> "periodic_line", p |-> 2, v |-> <<1, -2>>]
    /\ Mask.shape = <<5, 9>>
    /\ Mask.val[<<0, 8>>] = 1 /\ Mask.val[<<4, 0>>] = 1
    /\ Mask.val[<<0, 0>>] = 0 /\ Mask.val[<<4, 8>>] = 0

(***************************************************************************)
(* Properties of the saved template (under SpecPersist)                    *)
(***************************************************************************)
\* C24: for every template of the values -1, 0 and 1, the file written as
\* template + 1 holds the values 0, 1 and 2 only and the template loaded from
\* it as file - 1 is the template the learning run detected with and recorded.
C24_PersistRoundTrip ==
    /\ omp_pc \in {"saved", "loaded"} =>
        \A k \in Cells(Val(omp_spot_shape_file).shape) :
            Val(omp_spot_shape_file).val[k] \in 0 .. 2
    /\ omp_pc = "loaded" =>
        /\ omp_spot_shape = nbp.spot_shape
        /\ omp_spot_shape = Some(load_shape(save_shape(Val(nbp.spot_shape))))

\* a template with the three values has been saved and loaded
C24_Witness ==
    /\ omp_pc = "loaded"
    /\ Val(nbp.spot_shape) = [shape |-> <<1, 3, 1>>,
                              val |-> [k \in Cells(<<1, 3, 1>>) |-> k[2] - 1]]
    /\ Val(omp_spot_shape_file).val[<<0, 0, 0>>] = 0
    /\ Val(omp_spot_shape).val[<<0, 0, 0>>] = -1

(***************************************************************************)
(* Properties of the arguments (under SpecInputs)                          *)
(***************************************************************************)
\* what the caller handed in: the pixel table, the gene column, the
\* candidates, template and thresholds of get_spots, the image, locations and
\* masks of count_spot_neighbours, the spots, genes and max_size of
\* spot_neighbourhood
CallerInputs == <<pixel_yxz, pixel_coefs, cc_gene, gs_args, csn_args, sn_args>>

\* C25: no step of cropped_coef_image, count_spot_neighbours,
\* spot_neighbourhood or get_spots, ending well or with an exception, changes
\* the pixel coefficients, the pixel locations, the spot locations, the spot
\* genes, the candidates, the masks, the template or max_size.
C25_InputsUnchanged == [][UNCHANGED CallerInputs]_vars

\* spot_neighbourhood has returned after raising its own copy of max_size to
\* odd sizes: the caller's max_size is as given
C25_Witness ==
    /\ sn_pc = "returned"
    /\ sn_args.max_size = <<1, 2, 2>>
    /\ sn_sel.max_size = <<1, 3, 3>>


(***************************************************************************)
(* Order of the tiles and the one template of a run without a stored       *)
(* template                                                                *)
(***************************************************************************)
\* the run found no stored template: only then line 49 sets t_centre
RunLearns == ~IsNone(omp_t_centre)
\* use_tiles is nbp_basic.use_tiles with the first tile and the central tile
\* exchanged, every other tile in its place
CentralSwapped ==
    \E j \in DOMAIN nbp_basic_use_tiles :
        /\ nbp_basic_use_tiles[j] = Val(omp_t_centre)
        /\ DOMAIN use_tiles = DOMAIN nbp_basic_use_tiles
        /\ \A i \in DOMAIN use_tiles :
            use_tiles[i] = IF i = 1 THEN nbp_basic_use_tiles[j]
                           ELSE IF i = j THEN nbp_basic_use_tiles[1]
                           ELSE nbp_basic_use_tiles[i]
\* the tiles whose passes have ended, in order
TilesPassed == [i \in 1 .. tile_i |-> use_tiles[i]]
\* the rows the pass that just ended has added
RowsAdded == [k \in 1 .. (Len(omp_spot_info') - Len(omp_spot_info)) |->
                omp_spot_info'[Len(omp_spot_info) + k]]
\* the number of cells of the template shape that hold v
CellsOf(shape, v) == Cardinality({k \in Cells(shape.shape) : shape.val[k] = v})
\* the rows the pass that just ended has added are spots of tile t kept with
\* the template shape: their counts of neighbours are counts over its cells
\* of 1 and of -1, the first above the threshold
DetectedWith(shape, t) ==
    \A k \in DOMAIN RowsAdded :
        /\ RowsAdded[k][7] = t
        /\ RowsAdded[k][5] > initial_pos_neighbour_thresh
        /\ RowsAdded[k][5] <= CellsOf(shape, 1)
        /\ RowsAdded[k][6] <= CellsOf(shape, -1)
LearningRunOrder ==
    (RunLearns /\ omp_pc # "start") =>
        /\ CentralSwapped
        /\ use_tiles[1] = Val(omp_t_centre)
        /\ n_learn <= 1
        /\ (tile_i >= 1 \/ omp_spot_info # <<>> \/ ~IsNone(omp_spot_shape)) =>
                /\ n_learn = 1
                /\ nbp.shape_tile = omp_t_centre
        /\ tile_i <= Len(use_tiles)
        /\ omp_pc = "done" =>
                /\ tile_i = Len(use_tiles)
                /\ \A t \in Range(nbp_basic_use_tiles) :
                    Cardinality({i \in DOMAIN TilesPassed : TilesPassed[i] = t}) = 1
                /\ nbp.spot_shape = omp_spot_shape
LearningRunPass ==
    RunLearns =>
        /\ ~IsNone(omp_spot_shape) => omp_spot_shape' = omp_spot_shape
        /\ tile_i' # tile_i =>
                /\ tile_i' = tile_i + 1
                /\ ~IsNone(omp_spot_shape')
                /\ DetectedWith(Val(omp_spot_shape'), use_tiles[tile_i + 1])
\* C26: in a run of call_spots_omp that finds no stored template, use_tiles is
\* nbp_basic.use_tiles with only the central tile and the first tile
\* exchanged, the template is learned once, from the central tile and in the
\* first pass, every pass detects with that one template, and a run that
\* ends has passed every tile exactly once
C26_CentralFirstOneTemplate == [] LearningRunOrder /\ [][LearningRunPass]_vars
C26_Witness ==
    /\ omp_pc = "done"
    /\ omp_t_centre = Some(1)
    /\ use_tiles = <<1, 0>>
    /\ nbp.shape_tile = Some(1)
    /\ n_learn = 1
    /\ {omp_spot_info[k][7] : k \in DOMAIN omp_spot_info} = {0, 1}


(***************************************************************************)
(* get_spots on a table with a gene that has no non-zero coefficient       *)
(***************************************************************************)
\* the genes whose column of pixel_coefs holds only zeros
ZeroColumnGenes == {g \in Genes : \A p \in DOMAIN pixel_coefs : pixel_coefs[p][g + 1] = 0}
\* a call with no supplied spots whose template passes the checks of lines 313-327
PlainValidCall ==
    /\ IsNone(spot_yxzg)
    /\ ~Raised(shape_check(spot_shape, pos_neighbour_thresh))
\* C27: a call of get_spots on a table of at least one pixel, with a valid
\* template or none and no supplied spots, does not raise: the loop passes
\* every gene, and a gene whose column is all zero adds no row
C27_ZeroColumnSkipped ==
    (PlainValidCall /\ Len(pixel_yxz) >= 1) =>
        /\ gs_pc # "raised"
        /\ \A k \in DOMAIN spot_info : spot_info[k][4] \notin ZeroColumnGenes
        /\ gs_pc = "returned" => gs_g = NGenes


(***************************************************************************)
(* The spots of a tile lie on its pixels, and the rows of the page stay    *)
(* aligned                                                                 *)
(***************************************************************************)
\* the rows of the pixel table of the pass that hold the location yxz
PixelsAt(yxz) == {p \in DOMAIN pixel_yxz' : pixel_yxz'[p] = yxz}
\* the pass that just ended: every row it added lies on one pixel of the tile
\* whose coefficient of the row's gene is above 0, the row added to spot_coefs
\* is the row of that pixel, and the rows of earlier passes stay as they were
PassAligned ==
    /\ Len(omp_spot_info') = Len(omp_spot_coefs')
    /\ \A k \in DOMAIN omp_spot_info : /\ omp_spot_info'[k] = omp_spot_info[k]
                                       /\ omp_spot_coefs'[k] = omp_spot_coefs[k]
    /\ \A k \in (DOMAIN omp_spot_info') \ (DOMAIN omp_spot_info) :
        LET row == omp_spot_info'[k] IN
            /\ row[7] = use_tiles[tile_i + 1]
            /\ Cardinality(PixelsAt(Take(row, 3))) = 1
            /\ \A p \in PixelsAt(Take(row, 3)) :
                /\ pixel_coefs'[p][row[4] + 1] > 0
                /\ omp_spot_coefs'[k] = pixel_coefs'[p]
\* the rows of omp_spot_info a row of the page can come from
SourceRows(i) ==
    {k \in DOMAIN omp_spot_info :
        /\ Take(omp_spot_info[k], 3) = nbp.local_yxz[i]
        /\ omp_spot_info[k][4] = nbp.gene_no[i]
        /\ omp_spot_info[k][7] = nbp.tile[i]}
PageAligned ==
    omp_pc = "done" =>
        /\ \A f \in {"tile", "gene_no", "coef", "n_neighbours_pos", "n_neighbours_neg"} :
                Len(nbp[f]) = Len(nbp.local_yxz)
        /\ \A i \in DOMAIN nbp.local_yxz :
            /\ Cardinality(SourceRows(i)) = 1
            /\ \A k \in SourceRows(i) :
                /\ nbp.coef[i] = omp_spot_coefs[k]
                /\ nbp.n_neighbours_pos[i] = omp_spot_info[k][5]
                /\ nbp.n_neighbours_neg[i] = omp_spot_info[k][6]
\* C28: every spot a pass of call_spots_omp adds lies on a pixel of its tile
\* with a coefficient above 0 for its gene and brings that pixel's row of
\* coefficients along, and on the page written row i of coef, tile, gene_no
\* and the neighbour counts all belong to the spot of row i of local_yxz
C28_SpotsOnPixelsRowsAligned ==
    [] PageAligned /\ [][tile_i' # tile_i => PassAligned]_vars
C28_Witness ==
    /\ omp_pc = "done"
    /\ omp_spot_coefs = <<<<1, 1>>, <<1, 1>>, <<2, -1>>>>
    /\ nbp.tile = <<0>>
    /\ nbp.coef = <<<<2, -1>>>>


(***************************************************************************)
(* The stored template and the checks of get_spots                         *)
(***************************************************************************)
\* the template a later run would load from the file
StoredTemplate == load_shape(Val(omp_spot_shape_file))
\* get_spots takes the template: it has a cell of 1, a cell of -1 and more
\* cells of 1 than the threshold (lines 313-327)
DetectorAccepts(shape) ==
    /\ \E k \in Cells(shape.shape) : shape.val[k] = 1
    /\ \E k \in Cells(shape.shape) : shape.val[k] = -1
    /\ Cardinality({k \in Cells(shape.shape) : shape.val[k] = 1})
            > initial_pos_neighbour_thresh
\* C29 as stated: whenever the file of the template exists, get_spots accepts
\* the template in it, and a run that ends in the error of a rejected template
\* has left no file
C29_StoredOnlyIfAccepted ==
    /\ ~IsNone(omp_spot_shape_file) => DetectorAccepts(StoredTemplate)
    /\ (omp_pc = "raised" /\ ~IsNone(omp_spot_shape)
            /\ ~DetectorAccepts(Val(omp_spot_shape))) => IsNone(omp_spot_shape_file)


(***************************************************************************)
(* The radii extract_and_filter records and filters with                   *)
(***************************************************************************)
RadiiSet == ex_pc \in {"kernels", "filtering", "raised"}
\* the fields of the page are the radii of config
DebugAsConfigured ==
    /\ nbp_debug.r1 = config.r1
    /\ nbp_debug.r2 = config.r2
    /\ nbp_debug.r_dapi = config.r_dapi
\* the kernels are built from the radii of config
KernelsAsConfigured ==
    /\ Val(filter_kernel).inner = Val(config.r1)
    /\ Val(filter_kernel).outer = Val(config.r2)
    /\ Val(filter_kernel).outer > Val(filter_kernel).inner
    /\ filter_kernel_dapi = disk(Val(config.r_dapi), disk_default_n).nhood
\* C30 as stated: once the radii are set, r1, r2 and r_dapi of the debug page
\* equal config's; an r2 left unset becomes 2 * r1; the kernels are built for
\* every config with r1 < r2, the difference of Hanning windows with inner
\* radius r1 and outer radius r2, the disk of the DAPI filter with r_dapi
C30_RadiiAsConfigured ==
    /\ [](RadiiSet => DebugAsConfigured)
    /\ [](ex_pc = "filtering" => KernelsAsConfigured)
    /\ [](ex_pc = "raised" => Val(config.r1) >= Val(config.r2))
    /\ [][(ex_pc = "radii" /\ IsNone(config.r2)) =>
            config'.r2 = Some(2 * Val(config'.r1))]_vars

=============================================================================
